---- MODULE Spec2Model ----
(***************************************************************************)
(* Model of the rule-based slot extractor of the bank-agent frontend       *)
(* (src/frontend/app/api/slot-extract/route.ts) and of the splitting and   *)
(* classification of assistant messages, of the chat turn of ChatPage     *)
(* (src/frontend/app/page.tsx), of the decoding of a share link            *)
(* (src/frontend/app/share/page.tsx) and of the fetches of the product     *)
(* catalog (src/frontend/app/products/ProductsClient.tsx).                 *)
(*                                                                         *)
(* A JavaScript string is modelled as a sequence of characters, so that    *)
(* the regular expressions of the source are matched character by          *)
(* character.  A character is a one-character string; a Hangul syllable is *)
(* written as its capitalised transliteration ("Man" is 만, "Won" is 원,   *)
(* "Eog" is 억, "Wol" is 월, "Dal" is 달, "Jeog" "Geum" is 적금), which is *)
(* one character of the text.  An optional value (number | undefined) is   *)
(* the empty sequence (undefined) or a one-element sequence holding the    *)
(* value.                                                                  *)
(***************************************************************************)
EXTENDS Integers, Sequences, FiniteSets, TLC

VARIABLES
  \* a request to the extractor and its response
  product_type, user_message, said, out,
  \* the calls made so far and the match position the fence expression keeps
  calls, regexLastIndex,
  \* an assistant message, the pieces it is made of, and what AssistantBubble
  \* shows of it
  bubbleContent, parts, bubbleBlocks,
  \* the state of ChatPage and the request it waits for
  messages, chatInput, isLoading, pending,
  \* the data parameter of a share link and what SharePage decodes from it
  spData, decoded,
  \* the state of ProductsPage and the calls of fetchProducts under way
  type, sort, q, items, loading, errorText, inFlight

extractVars == <<product_type, user_message, said, out>>

callVars == <<calls, regexLastIndex>>

viewVars == <<bubbleContent, parts, bubbleBlocks>>

chatVars == <<messages, chatInput, isLoading, pending>>

shareVars == <<spData, decoded>>

productsVars == <<type, sort, q, items, loading, errorText, inFlight>>

vars == <<extractVars, callVars, viewVars, chatVars, shareVars, productsVars>>

---------------------------------------------------------------------------
(* Strings *)

Undefined == <<>>

Some(v) == <<v>>

\* the value of each decimal digit
Digits ==
  ("0" :> 0) @@ ("1" :> 1) @@ ("2" :> 2) @@ ("3" :> 3) @@ ("4" :> 4) @@
  ("5" :> 5) @@ ("6" :> 6) @@ ("7" :> 7) @@ ("8" :> 8) @@ ("9" :> 9)

\* \d and [0-9]
IsDigit(c) == c \in DOMAIN Digits

DigitVal(c) == Digits[c]

\* \s of a JavaScript regular expression, and the characters trim() strips
IsSpace(c) == c \in {" ", "\n", "\t"}

Slice(s, from, to) == [k \in 1..(to - from) |-> s[from + k - 1]]

RECURSIVE TrimStart(_)
TrimStart(s) ==
  IF s # <<>> /\ IsSpace(Head(s)) THEN TrimStart(Tail(s)) ELSE s

RECURSIVE TrimEnd(_)
TrimEnd(s) ==
  IF s # <<>> /\ IsSpace(s[Len(s)]) THEN TrimEnd(SubSeq(s, 1, Len(s) - 1)) ELSE s

\* String.prototype.trim
Trim(s) == TrimEnd(TrimStart(s))

\* text.replace(/,/g, "")
RemoveCommas(s) == SelectSeq(s, LAMBDA c : c # ",")

\* the i flag: the Latin letters of the patterns compare case-insensitively
\* ("O" is the syllable 오 here, so the texts write the Latin letter o in lower case)
ToLower(c) ==
  CASE c = "M" -> "m" [] c = "N" -> "n" [] c = "T" -> "t"
    [] c = "H" -> "h" [] c = "S" -> "s" [] c = "J" -> "j" [] OTHER -> c

\* whether the literal lit occurs in s at position i
StartsWithAt(s, i, lit) ==
  /\ i + Len(lit) - 1 <= Len(s)
  /\ \A k \in 1..Len(lit) : s[i + k - 1] = lit[k]

\* the same under the i flag
StartsWithAtI(s, i, lit) ==
  /\ i + Len(lit) - 1 <= Len(s)
  /\ \A k \in 1..Len(lit) : ToLower(s[i + k - 1]) = lit[k]

\* the end of the run of digits that starts at i (\d+ and \d* are greedy)
RECURSIVE DigitRunEnd(_, _)
DigitRunEnd(s, i) ==
  IF i <= Len(s) /\ IsDigit(s[i]) THEN DigitRunEnd(s, i + 1) ELSE i

\* a variant that skips no whitespace
SpaceRunEnd_Stay(s, i) == i

\* the end of the run of whitespace that starts at i
RECURSIVE SpaceRunEnd(_, _)
SpaceRunEnd(s, i) ==
  IF i <= Len(s) /\ IsSpace(s[i]) THEN SpaceRunEnd(s, i + 1) ELSE i

\* the number written by the decimal digits s
RECURSIVE DigitsVal(_)
DigitsVal(s) ==
  IF s = <<>> THEN 0
  ELSE 10 * DigitsVal(SubSeq(s, 1, Len(s) - 1)) + DigitVal(s[Len(s)])

RECURSIVE Pow10(_)
Pow10(n) == IF n = 0 THEN 1 ELSE 10 * Pow10(n - 1)

---------------------------------------------------------------------------
(* Regular expressions used with .test(): a sequence of alternatives, each *)
(* a sequence of atoms.  An atom is a literal character, "\\s*" (any run   *)
(* of whitespace), "[0-9]" (one digit) or "Hal?" (an optional 할).         *)

AtomEnds(atom, text, i) ==
  CASE atom = "\\s*" -> i..SpaceRunEnd(text, i)
    [] atom = "[0-9]" -> IF i <= Len(text) /\ IsDigit(text[i]) THEN {i + 1} ELSE {}
    [] atom = "Hal?" -> {i} \cup (IF i <= Len(text) /\ text[i] = "Hal" THEN {i + 1} ELSE {})
    [] OTHER -> IF i <= Len(text) /\ text[i] = atom THEN {i + 1} ELSE {}

\* whether atoms k.. of alt match text from position i on
RECURSIVE AltMatches(_, _, _, _)
AltMatches(alt, k, text, i) ==
  \/ k > Len(alt)
  \/ \E j \in AtomEnds(alt[k], text, i) : AltMatches(alt, k + 1, text, j)

\* RegExp.prototype.test of a regular expression without the g or y flag:
\* the search starts at the beginning of the text whatever was matched before
RegExpTest(re, text) ==
  \E i \in 1..(Len(text) + 1) : \E a \in 1..Len(re) : AltMatches(re[a], 1, text, i)

---------------------------------------------------------------------------
(* The regular expression literals of ruleBasedExtract *)

\* line 87: /(잘\s*모르|대충|아마|그냥|가능할?지|모르겠|애매)/
UncertainWords ==
  <<<<"Jal", "\\s*", "Mo", "Reu">>,
    <<"Dae", "Chung">>,
    <<"A", "Ma">>,
    <<"Geu", "Nyang">>,
    <<"Ga", "Neung", "Hal?", "Ji">>,
    <<"Mo", "Reu", "Gess">>,
    <<"Ae", "Mae">>>>

\* line 97: /적금/
SavingsType ==
  <<<<"Jeog", "Geum">>>>

\* a variant without 월 on its own
PeriodicWords_NoWol ==
  <<<<"Mae", "Dal">>,
    <<"Han", "Dal">>,
    <<"Mae", "Wol">>>>

\* line 99: /(매달|월|한달|매월)/
PeriodicWords ==
  <<<<"Mae", "Dal">>,
    <<"Wol">>,
    <<"Han", "Dal">>,
    <<"Mae", "Wol">>>>

\* line 101: /예금/
DepositType ==
  <<<<"Ye", "Geum">>>>

\* line 103: /대출/
LoanType ==
  <<<<"Dae", "Chul">>>>

\* line 105: /(소득|월급|연봉)/
IncomeWords ==
  <<<<"So", "Deug">>,
    <<"Wol", "Geub">>,
    <<"Yeon", "Bong">>>>

\* line 114: /(급여이체|월급\s*이체|급여\s*받)/
SalaryTransferYes ==
  <<<<"Geub", "Yeo", "I", "Che">>,
    <<"Wol", "Geub", "\\s*", "I", "Che">>,
    <<"Geub", "Yeo", "\\s*", "Bad">>>>

\* line 114: /(급여이체\s*불가|월급\s*안받|급여\s*없)/
SalaryTransferNo ==
  <<<<"Geub", "Yeo", "I", "Che", "\\s*", "Bul", "Ga">>,
    <<"Wol", "Geub", "\\s*", "An", "Bad">>,
    <<"Geub", "Yeo", "\\s*", "Eobs">>>>

\* a variant without 자동이체
AutoTransferYes_NoJadong ==
  <<<<"Jeong", "Gi", "I", "Che">>,
    <<"O", "To", "I", "Che">>>>

\* line 115: /(자동이체|정기이체|오토이체)/
AutoTransferYes ==
  <<<<"Ja", "Dong", "I", "Che">>,
    <<"Jeong", "Gi", "I", "Che">>,
    <<"O", "To", "I", "Che">>>>

\* line 115: /(자동이체\s*싫|자동이체\s*불가|정기이체\s*안)/
AutoTransferNo ==
  <<<<"Ja", "Dong", "I", "Che", "\\s*", "Silh">>,
    <<"Ja", "Dong", "I", "Che", "\\s*", "Bul", "Ga">>,
    <<"Jeong", "Gi", "I", "Che", "\\s*", "An">>>>

\* line 116: /(카드\s*실적|카드\s*사용|월\s*카드)/
CardSpendYes ==
  <<<<"Ka", "Deu", "\\s*", "Sil", "Jeog">>,
    <<"Ka", "Deu", "\\s*", "Sa", "Yong">>,
    <<"Wol", "\\s*", "Ka", "Deu">>>>

\* line 116: /(카드\s*안써|카드\s*싫|실적\s*못)/
CardSpendNo ==
  <<<<"Ka", "Deu", "\\s*", "An", "Sseo">>,
    <<"Ka", "Deu", "\\s*", "Silh">>,
    <<"Sil", "Jeog", "\\s*", "Mos">>>>

\* line 117: /(주거래|메인\s*은행|주로\s*쓰는\s*은행)/
PrimaryBankYes ==
  <<<<"Ju", "Geo", "Rae">>,
    <<"Me", "In", "\\s*", "Eun", "Haeng">>,
    <<"Ju", "Ro", "\\s*", "Sseu", "Neun", "\\s*", "Eun", "Haeng">>>>

\* line 117: /(주거래\s*없|메인\s*없)/
PrimaryBankNo ==
  <<<<"Ju", "Geo", "Rae", "\\s*", "Eobs">>,
    <<"Me", "In", "\\s*", "Eobs">>>>

\* line 118: /(비대면|모바일\s*가입|앱으로)/
NonFaceYes ==
  <<<<"Bi", "Dae", "Myeon">>,
    <<"Mo", "Ba", "Il", "\\s*", "Ga", "Ib">>,
    <<"Aeb", "Eu", "Ro">>>>

\* line 118: /(대면|영업점|방문)/
NonFaceNo ==
  <<<<"Dae", "Myeon">>,
    <<"Yeong", "Eob", "Jeom">>,
    <<"Bang", "Mun">>>>

\* line 119: /(청년|만\s*3[0-9]|20대|사회초년)/
YouthYes ==
  <<<<"Cheong", "Nyeon">>,
    <<"Man", "\\s*", "3", "[0-9]">>,
    <<"2", "0", "Dae">>,
    <<"Sa", "Hoe", "Cho", "Nyeon">>>>

\* line 119: /(청년\s*아님|40대|50대)/
YouthNo ==
  <<<<"Cheong", "Nyeon", "\\s*", "A", "Nim">>,
    <<"4", "0", "Dae">>,
    <<"5", "0", "Dae">>>>

---------------------------------------------------------------------------
(* The lexical parsers *)

\* the unit alternation (억|천만원|백만원|만원|만|원), in the order it is tried
MoneyUnits ==
  <<<<"Eog">>,
    <<"Cheon", "Man", "Won">>,
    <<"Baeg", "Man", "Won">>,
    <<"Man", "Won">>,
    <<"Man">>,
    <<"Won">>>>

\* the first alternative of units that occurs in t at position p
FirstUnitAt(units, t, p) ==
  IF \E a \in 1..Len(units) : StartsWithAt(t, p, units[a])
  THEN Some(units[CHOOSE a \in 1..Len(units) :
                    /\ StartsWithAt(t, p, units[a])
                    /\ \A b \in 1..(a - 1) : ~StartsWithAt(t, p, units[b])])
  ELSE Undefined

\* a variant in which the unit is optional: a bare number reads as 원
MoneyMatchAt_UnitOptional(t, i) ==
  IF ~(i <= Len(t) /\ IsDigit(t[i])) THEN Undefined
  ELSE LET j == DigitRunEnd(t, i)
           unit == FirstUnitAt(MoneyUnits, t, SpaceRunEnd(t, j))
       IN  Some([int |-> Slice(t, i, j), frac |-> <<>>,
                 unit |-> IF unit # Undefined THEN unit[1] ELSE <<"Won">>])

\* the match of /(\d+(\.\d+)?)(\s*)?(억|천만원|백만원|만원|만|원)/ that starts at
\* position i of t: m[1] and m[4], or undefined.  \d+ takes the whole run of
\* digits (after fewer digits the next character is a digit, which neither
\* the fraction, nor whitespace, nor a unit matches); the optional fraction
\* is tried first and given up when no unit follows it.
MoneyMatchAt(t, i) ==
  IF ~(i <= Len(t) /\ IsDigit(t[i])) THEN Undefined
  ELSE LET j == DigitRunEnd(t, i)
           hasFraction == j + 1 <= Len(t) /\ t[j] = "." /\ IsDigit(t[j + 1])
           f == IF hasFraction THEN DigitRunEnd(t, j + 1) ELSE j
           unitAfterFraction == FirstUnitAt(MoneyUnits, t, SpaceRunEnd(t, f))
           unitAfterInteger == FirstUnitAt(MoneyUnits, t, SpaceRunEnd(t, j))
       IN  IF hasFraction /\ unitAfterFraction # Undefined
           THEN Some([int |-> Slice(t, i, j), frac |-> Slice(t, j + 1, f),
                      unit |-> unitAfterFraction[1]])
           ELSE IF unitAfterInteger # Undefined
           THEN Some([int |-> Slice(t, i, j), frac |-> <<>>,
                      unit |-> unitAfterInteger[1]])
           ELSE Undefined

\* a variant that takes the rightmost match
MoneyMatch_Last(t, i) ==
  LET starts == {k \in i..Len(t) : MoneyMatchAt(t, k) # Undefined}
  IN  IF starts = {} THEN Undefined
      ELSE MoneyMatchAt(t, CHOOSE k \in starts : \A h \in starts : h <= k)

\* String.prototype.match without the g flag: the leftmost match, searched
\* from position i on
RECURSIVE MoneyMatch(_, _)
MoneyMatch(t, i) ==
  IF i > Len(t) THEN Undefined
  ELSE IF MoneyMatchAt(t, i) # Undefined THEN MoneyMatchAt(t, i)
  ELSE MoneyMatch(t, i + 1)

\* a variant that truncates, as Math.floor does
MathRound_Floor(n, d, mult) == (n * mult) \div d

\* Math.round(n / d * mult): the nearest integer, halves rounded up
MathRound(n, d, mult) ==
  LET quot == (n * mult) \div d
      r == (n * mult) % d
  IN  IF 2 * r >= d THEN quot + 1 ELSE quot

\* lines 55-66: the number of a match m, Number(m[1]) being n / d
MoneyValue(m) ==
  LET n == DigitsVal(m.int \o m.frac)
      d == Pow10(Len(m.frac))
      unit == m.unit
  IN  IF unit = <<"Eog">> THEN Some(MathRound(n, d, 100000000))
      ELSE IF unit = <<"Cheon", "Man", "Won">> THEN Some(MathRound(n, d, 10000000))
      ELSE IF unit = <<"Baeg", "Man", "Won">> THEN Some(MathRound(n, d, 1000000))
      ELSE IF unit = <<"Man", "Won">> \/ unit = <<"Man">> THEN Some(MathRound(n, d, 10000))
      ELSE IF unit = <<"Won">> THEN Some(MathRound(n, d, 1))
      ELSE Undefined

\* a variant that answers 0 where nothing matches
parseKoreanMoney_ZeroDefault(text) ==
  LET m == MoneyMatch(Trim(RemoveCommas(text)), 1)
  IN  IF m = Undefined THEN Some(0) ELSE MoneyValue(m[1])

parseKoreanMoney(text) ==
  LET t == Trim(RemoveCommas(text))
      m == MoneyMatch(t, 1)
  IN  IF m = Undefined THEN Undefined ELSE MoneyValue(m[1])

\* a variant that takes 년 for a unit
MonthUnits_WithYear ==
  <<<<"Gae", "Wol">>,
    <<"Dal">>,
    <<"Nyeon">>,
    <<"m", "o", "n", "t", "h">>,
    <<"m", "o", "n", "t", "h", "s">>>>

\* the unit alternation (개월|달|month|months)
MonthUnits ==
  <<<<"Gae", "Wol">>,
    <<"Dal">>,
    <<"m", "o", "n", "t", "h">>,
    <<"m", "o", "n", "t", "h", "s">>>>

\* the match of /(\d+)\s*(개월|달|month|months)/i that starts at position i:
\* m[1], or undefined
MonthsMatchAt(t, i) ==
  IF ~(i <= Len(t) /\ IsDigit(t[i])) THEN Undefined
  ELSE LET j == DigitRunEnd(t, i)
           p == SpaceRunEnd(t, j)
       IN  IF \E a \in 1..Len(MonthUnits) : StartsWithAtI(t, p, MonthUnits[a])
           THEN Some(Slice(t, i, j))
           ELSE Undefined

\* the leftmost match, searched from position i on
RECURSIVE MonthsMatch(_, _)
MonthsMatch(t, i) ==
  IF i > Len(t) THEN Undefined
  ELSE IF MonthsMatchAt(t, i) # Undefined THEN MonthsMatchAt(t, i)
  ELSE MonthsMatch(t, i + 1)

parseMonths(text) ==
  LET m == MonthsMatch(text, 1)
  IN  IF m = Undefined THEN Undefined
      ELSE \* Number(m[1]) is finite
           Some(DigitsVal(m[1]))

\* a variant without the final return: the result is undefined
detectYesNoUnknown_NoDefault(text, yesWords, noWords) ==
  IF RegExpTest(yesWords, text) THEN "yes"
  ELSE IF RegExpTest(noWords, text) THEN "no"
  ELSE "undefined"

\* a variant that looks for the negative words first
detectYesNoUnknown_NegativeFirst(text, yesWords, noWords) ==
  IF RegExpTest(noWords, text) THEN "no"
  ELSE IF RegExpTest(yesWords, text) THEN "yes"
  ELSE "unknown"

detectYesNoUnknown(text, yesWords, noWords) ==
  IF RegExpTest(yesWords, text) THEN "yes"
  ELSE IF RegExpTest(noWords, text) THEN "no"
  ELSE "unknown"

---------------------------------------------------------------------------
(* The extractor *)

baseOutput ==
  [slots |-> <<>>,
   eligibility |-> [salary_transfer |-> "unknown",
                    auto_transfer |-> "unknown",
                    card_spend |-> "unknown",
                    primary_bank |-> "unknown",
                    non_face |-> "unknown",
                    youth |-> "unknown"],
   meta |-> [user_uncertain |-> FALSE]]

\* obj.name = v: the property is added when obj does not have it
SetField(obj, name, v) == (name :> v) @@ obj

\* line 91, if (months): undefined and 0 are falsy
MonthsFound(months) == months # Undefined /\ months # Some(0)

\* a variant that tests the amount as line 91 tests the months: if (money)
MoneyFound_Truthy(money) == money # Undefined /\ money # Some(0)

\* line 96, if (money !== undefined)
MoneyFound(money) == money # Undefined

\* a variant that looks at 예금 before 적금
AmountSlot_DepositFirst(productType, msg) ==
  IF RegExpTest(DepositType, productType) THEN "lump_sum"
  ELSE IF RegExpTest(SavingsType, productType)
  THEN (IF RegExpTest(PeriodicWords, msg) THEN "monthly_amount" ELSE "lump_sum")
  ELSE IF RegExpTest(LoanType, productType)
  THEN (IF RegExpTest(IncomeWords, msg) THEN "income_monthly" ELSE "desired_amount")
  ELSE "lump_sum"

\* lines 96-111: the slot the amount goes to
AmountSlot(productType, msg) ==
  IF RegExpTest(SavingsType, productType)
  THEN (IF RegExpTest(PeriodicWords, msg) THEN "monthly_amount" ELSE "lump_sum")
  ELSE IF RegExpTest(DepositType, productType) THEN "lump_sum"
  ELSE IF RegExpTest(LoanType, productType)
  THEN (IF RegExpTest(IncomeWords, msg) THEN "income_monthly" ELSE "desired_amount")
  ELSE "lump_sum"

\* the text of the questions asked before
RECURSIVE Concat(_)
Concat(strings) ==
  IF strings = <<>> THEN <<>> ELSE Head(strings) \o Concat(Tail(strings))

\* a variant that reads the utterance after the questions it answers
msgOf_WithQuestions(input) == Trim(Concat(input.last_questions) \o input.user_message)

\* line 84: const msg = (input.user_message || "").trim()
msgOf(input) == Trim(input.user_message)

ruleBasedExtract(input) ==
  LET out0 == baseOutput
      msg == msgOf(input)
      months == parseMonths(msg)
      slots1 == IF MonthsFound(months)
                THEN SetField(out0.slots, "term_months", months[1])
                ELSE out0.slots
      money == parseKoreanMoney(msg)
      slots2 == IF MoneyFound(money)
                THEN SetField(slots1, AmountSlot(input.product_type, msg), money[1])
                ELSE slots1
      e1 == SetField(out0.eligibility, "salary_transfer",
                     detectYesNoUnknown(msg, SalaryTransferYes, SalaryTransferNo))
      e2 == SetField(e1, "auto_transfer",
                     detectYesNoUnknown(msg, AutoTransferYes, AutoTransferNo))
      e3 == SetField(e2, "card_spend",
                     detectYesNoUnknown(msg, CardSpendYes, CardSpendNo))
      e4 == SetField(e3, "primary_bank",
                     detectYesNoUnknown(msg, PrimaryBankYes, PrimaryBankNo))
      e5 == SetField(e4, "non_face",
                     detectYesNoUnknown(msg, NonFaceYes, NonFaceNo))
      e6 == SetField(e5, "youth",
                     detectYesNoUnknown(msg, YouthYes, YouthNo))
  IN  [slots |-> slots2,
       eligibility |-> e6,
       meta |-> SetField(out0.meta, "user_uncertain", RegExpTest(UncertainWords, msg))]

---------------------------------------------------------------------------
(* JSON.parse, for the texts of the model: objects, arrays, strings         *)
(* without escapes, numbers without exponent, true, false and null.  A      *)
(* value is a record tagged with its type; an object keeps its members in   *)
(* the order they are written.                                              *)

JsonNull == [type |-> "null"]

JsonFail == [ok |-> FALSE]

JsonOk(v, next) == [ok |-> TRUE, val |-> v, next |-> next]

\* the control characters other than line break and tab, as the decoder of
\* the share page writes them
ControlChars == {"U+" \o ToString(n) : n \in 0..31}

\* the position of the quote that closes the string opened before i, or 0:
\* a string holds no control character and, in the model, no backslash
RECURSIVE StringEnd(_, _)
StringEnd(t, i) ==
  IF i > Len(t) \/ t[i] \in {"\n", "\t", "\\"} \cup ControlChars THEN 0
  ELSE IF t[i] = "\"" THEN i
  ELSE StringEnd(t, i + 1)

ParseString(t, i) ==
  IF i <= Len(t) /\ t[i] = "\"" /\ StringEnd(t, i + 1) # 0
  THEN JsonOk([type |-> "string", chars |-> Slice(t, i + 1, StringEnd(t, i + 1))],
              StringEnd(t, i + 1) + 1)
  ELSE JsonFail

\* -? (0 | [1-9][0-9]*) (\.[0-9]+)?
ParseNumber(t, i) ==
  LET a == IF i <= Len(t) /\ t[i] = "-" THEN i + 1 ELSE i
      b == DigitRunEnd(t, a)
      hasFraction == b + 1 <= Len(t) /\ t[b] = "." /\ IsDigit(t[b + 1])
      c == IF hasFraction THEN DigitRunEnd(t, b + 1) ELSE b
  IN  IF b = a \/ (b > a + 1 /\ t[a] = "0") \/ (b <= Len(t) /\ t[b] = "." /\ ~hasFraction)
      THEN JsonFail
      ELSE JsonOk([type |-> "number",
                   zero |-> \A k \in a..(c - 1) : t[k] \in {"0", "."}], c)

RECURSIVE ParseValue(_, _), ParseMembers(_, _, _), ParseElements(_, _, _)

\* the value that starts at position i, after optional whitespace
ParseValue(t, i) ==
  LET j == SpaceRunEnd(t, i)
  IN  IF j > Len(t) THEN JsonFail
      ELSE IF t[j] = "{"
      THEN (IF SpaceRunEnd(t, j + 1) <= Len(t) /\ t[SpaceRunEnd(t, j + 1)] = "}"
            THEN JsonOk([type |-> "object", members |-> <<>>], SpaceRunEnd(t, j + 1) + 1)
            ELSE ParseMembers(t, j + 1, <<>>))
      ELSE IF t[j] = "["
      THEN (IF SpaceRunEnd(t, j + 1) <= Len(t) /\ t[SpaceRunEnd(t, j + 1)] = "]"
            THEN JsonOk([type |-> "array", items |-> <<>>], SpaceRunEnd(t, j + 1) + 1)
            ELSE ParseElements(t, j + 1, <<>>))
      ELSE IF t[j] = "\"" THEN ParseString(t, j)
      ELSE IF StartsWithAt(t, j, <<"t", "r", "u", "e">>)
      THEN JsonOk([type |-> "boolean", value |-> TRUE], j + 4)
      ELSE IF StartsWithAt(t, j, <<"f", "a", "l", "s", "e">>)
      THEN JsonOk([type |-> "boolean", value |-> FALSE], j + 5)
      ELSE IF StartsWithAt(t, j, <<"n", "u", "l", "l">>) THEN JsonOk(JsonNull, j + 4)
      ELSE ParseNumber(t, j)

\* the members of an object from position i on, after those in done
ParseMembers(t, i, done) ==
  LET key == ParseString(t, SpaceRunEnd(t, i))
      colon == IF key.ok THEN SpaceRunEnd(t, key.next) ELSE 0
      value == IF key.ok /\ colon <= Len(t) /\ t[colon] = ":"
               THEN ParseValue(t, colon + 1) ELSE JsonFail
      sep == IF value.ok THEN SpaceRunEnd(t, value.next) ELSE 0
      members == Append(done, [key |-> key.val.chars, value |-> value.val])
  IN  IF ~value.ok \/ sep > Len(t) THEN JsonFail
      ELSE IF t[sep] = "}" THEN JsonOk([type |-> "object", members |-> members], sep + 1)
      ELSE IF t[sep] = "," THEN ParseMembers(t, sep + 1, members)
      ELSE JsonFail

\* the elements of an array from position i on, after those in done
ParseElements(t, i, done) ==
  LET value == ParseValue(t, i)
      sep == IF value.ok THEN SpaceRunEnd(t, value.next) ELSE 0
      elems == Append(done, value.val)
  IN  IF ~value.ok \/ sep > Len(t) THEN JsonFail
      ELSE IF t[sep] = "]" THEN JsonOk([type |-> "array", items |-> elems], sep + 1)
      ELSE IF t[sep] = "," THEN ParseElements(t, sep + 1, elems)
      ELSE JsonFail

\* JSON.parse(text) as safeJsonParse uses it: the value, or null when
\* JSON.parse throws
safeJsonParse(text) ==
  LET r == ParseValue(text, 1)
  IN  IF r.ok /\ SpaceRunEnd(text, r.next) > Len(text) THEN r.val ELSE JsonNull

\* the value of x in a condition
Truthy(x) ==
  CASE x.type \in {"object", "array"} -> TRUE
    [] x.type = "string" -> x.chars # <<>>
    [] x.type = "number" -> ~x.zero
    [] x.type = "boolean" -> x.value
    [] OTHER -> FALSE

\* typeof x === "object"
TypeofObject(x) == x.type \in {"object", "array", "null"}

JsUndefined == [type |-> "undefined"]

\* x.name: the last member of that name of an object, undefined otherwise
\* (the names read here are no property of an array, string, number or boolean)
Get(x, name) ==
  IF x.type = "object" /\ \E k \in 1..Len(x.members) : x.members[k].key = name
  THEN x.members[CHOOSE k \in 1..Len(x.members) :
                   /\ x.members[k].key = name
                   /\ \A h \in (k + 1)..Len(x.members) : x.members[h].key # name].value
  ELSE JsUndefined

\* a variant that asks whether slots and eligibility are there, whatever
\* their values
isSlotState_Present(x) ==
  /\ Truthy(x)
  /\ TypeofObject(x)
  /\ Get(x, <<"s", "l", "o", "t", "s">>) # JsUndefined
  /\ Get(x, <<"e", "l", "i", "g", "i", "b", "i", "l", "i", "t", "y">>) # JsUndefined
  /\ Truthy(Get(x, <<"m", "e", "t", "a">>))
  /\ Get(Get(x, <<"m", "e", "t", "a">>),
         <<"u", "s", "e", "r", "_", "u", "n", "c", "e", "r", "t", "a", "i", "n">>).type
       = "boolean"

\* a variant that takes an object without members for no slots at all
isSlotState_NonEmptySlots(x) ==
  /\ Truthy(x)
  /\ TypeofObject(x)
  /\ Get(x, <<"s", "l", "o", "t", "s">>).type = "object"
  /\ Get(x, <<"s", "l", "o", "t", "s">>).members # <<>>
  /\ Truthy(Get(x, <<"e", "l", "i", "g", "i", "b", "i", "l", "i", "t", "y">>))
  /\ Truthy(Get(x, <<"m", "e", "t", "a">>))
  /\ Get(Get(x, <<"m", "e", "t", "a">>),
         <<"u", "s", "e", "r", "_", "u", "n", "c", "e", "r", "t", "a", "i", "n">>).type
       = "boolean"

isSlotState(x) ==
  /\ Truthy(x)
  /\ TypeofObject(x)
  /\ Truthy(Get(x, <<"s", "l", "o", "t", "s">>))
  /\ Truthy(Get(x, <<"e", "l", "i", "g", "i", "b", "i", "l", "i", "t", "y">>))
  /\ Truthy(Get(x, <<"m", "e", "t", "a">>))
  /\ Get(Get(x, <<"m", "e", "t", "a">>),
         <<"u", "s", "e", "r", "_", "u", "n", "c", "e", "r", "t", "a", "i", "n">>).type
       = "boolean"

isProductResult(x) ==
  /\ Truthy(x)
  /\ TypeofObject(x)
  /\ Get(x, <<"p", "r", "o", "d", "u", "c", "t", "s">>).type = "array"

---------------------------------------------------------------------------
(* The content segmenter and the payload classifier.  The backtick is the  *)
(* character "BACKTICK".                                                    *)

FenceOpen == <<"BACKTICK", "BACKTICK", "BACKTICK", "j", "s", "o", "n">>

FenceClose == <<"BACKTICK", "BACKTICK", "BACKTICK">>

\* a variant whose group is greedy: it ends at the last closing fence
GroupEnd_Greedy(t, k) ==
  LET ends == {e \in k..(Len(t) + 1) : StartsWithAt(t, SpaceRunEnd(t, e), FenceClose)}
  IN  IF ends = {} THEN 0 ELSE CHOOSE e \in ends : \A h \in ends : h <= e

\* where the lazy group 1 of the fence expression of line 195 (the opening
\* fence, \s*, a lazy group of any characters, \s*, the closing fence) ends
\* when it starts at position k: the first position from which whitespace
\* and then the closing fence follow; 0 when there is none
RECURSIVE GroupEnd(_, _)
GroupEnd(t, k) ==
  IF k > Len(t) + 1 THEN 0
  ELSE IF StartsWithAt(t, SpaceRunEnd(t, k), FenceClose) THEN k
  ELSE GroupEnd(t, k + 1)

\* regex.exec(content) of the g and i flagged fence expression whose
\* lastIndex is from: the leftmost match that starts at from or later, as
\* its index, its group 1 and the lastIndex it leaves; without a match exec
\* answers null and resets lastIndex.  Positions are 1-based: the lastIndex
\* 0 of JavaScript is position 1.
RECURSIVE FenceExec(_, _)
FenceExec(t, from) ==
  IF from > Len(t) THEN [found |-> FALSE, lastIndex |-> 1]
  ELSE IF StartsWithAtI(t, from, FenceOpen)
          /\ GroupEnd(t, SpaceRunEnd(t, from + Len(FenceOpen))) # 0
  THEN LET g == SpaceRunEnd(t, from + Len(FenceOpen))
           e == GroupEnd(t, g)
       IN  [found |-> TRUE, index |-> from, group |-> Slice(t, g, e),
            lastIndex |-> SpaceRunEnd(t, e) + Len(FenceClose)]
  ELSE FenceExec(t, from + 1)

\* a variant that pushes the block whether or not keep holds
PushIf_Always(blocks, keep, kind, value) ==
  Append(blocks, [kind |-> kind, value |-> value])

\* blocks.push({kind, value}) when keep holds
PushIf(blocks, keep, kind, value) ==
  IF keep THEN Append(blocks, [kind |-> kind, value |-> value]) ELSE blocks

\* a variant that takes the text before a fence from the start of the message
RECURSIVE SplitLoop_FromStart(_, _, _)
SplitLoop_FromStart(content, lastIndex, blocks) ==
  LET match == FenceExec(content, lastIndex)
  IN  IF match.found
      THEN LET before == Slice(content, 1, match.index)
           IN  SplitLoop_FromStart(content, match.lastIndex,
                                   Append(PushIf(blocks, Trim(before) # <<>>, "text", before),
                                          [kind |-> "json", value |-> match.group]))
      ELSE LET after == Slice(content, lastIndex, Len(content) + 1)
               all == PushIf(blocks, Trim(after) # <<>>, "text", after)
           IN  [blocks |-> IF all # <<>> THEN all
                           ELSE <<[kind |-> "text", value |-> content]>>,
                lastIndex |-> match.lastIndex]

\* a variant that forgets what follows the last fence
RECURSIVE SplitLoop_NoAfter(_, _, _)
SplitLoop_NoAfter(content, lastIndex, blocks) ==
  LET match == FenceExec(content, lastIndex)
  IN  IF match.found
      THEN LET before == Slice(content, lastIndex, match.index)
           IN  SplitLoop_NoAfter(content, match.lastIndex,
                                 Append(PushIf(blocks, Trim(before) # <<>>, "text", before),
                                        [kind |-> "json", value |-> match.group]))
      ELSE [blocks |-> IF blocks # <<>> THEN blocks
                       ELSE <<[kind |-> "text", value |-> content]>>,
            lastIndex |-> match.lastIndex]

\* lines 197-210: the loop over the fences from lastIndex on, and what
\* follows it.  The answer holds the blocks and the lastIndex the regular
\* expression is left with.
RECURSIVE SplitLoop(_, _, _)
SplitLoop(content, lastIndex, blocks) ==
  LET match == FenceExec(content, lastIndex)
  IN  IF match.found
      THEN LET before == Slice(content, lastIndex, match.index)
           IN  SplitLoop(content, match.lastIndex,
                         Append(PushIf(blocks, Trim(before) # <<>>, "text", before),
                                [kind |-> "json", value |-> match.group]))
      ELSE LET after == Slice(content, lastIndex, Len(content) + 1)
               all == PushIf(blocks, Trim(after) # <<>>, "text", after)
           IN  [blocks |-> IF all # <<>> THEN all
                           ELSE <<[kind |-> "text", value |-> content]>>,
                lastIndex |-> match.lastIndex]

\* a variant that takes a message for one payload only when it holds no fence
IsWholePayload_NoFence(content) ==
  LET whole == safeJsonParse(Trim(content))
  IN  /\ Truthy(whole) /\ TypeofObject(whole)
      /\ ~FenceExec(content, 1).found

\* a variant that takes every value but null, false, 0 and "" for a payload
IsWholePayload_AnyValue(content) == Truthy(safeJsonParse(Trim(content)))

\* lines 189-192: whether the whole trimmed message is one payload
IsWholePayload(content) ==
  LET whole == safeJsonParse(Trim(content))
  IN  Truthy(whole) /\ TypeofObject(whole)

\* the regular expression of line 195 is made anew by each call, with
\* lastIndex 0
splitTextAndJsonBlocks(content) ==
  IF IsWholePayload(content)
  THEN <<[kind |-> "json", value |-> Trim(content)]>>
  ELSE SplitLoop(content, 1, <<>>).blocks

\* a variant that looks for the slot state before the recommendation bundle
Classify_SlotStateFirst(value) ==
  LET raw == Trim(value)
      parsed == safeJsonParse(raw)
  IN  IF isSlotState(parsed) THEN [as |-> "SlotState", data |-> parsed]
      ELSE IF isProductResult(parsed) THEN [as |-> "RecommendationBundle", data |-> parsed]
      ELSE [as |-> "Unclassified", raw |-> raw]

\* a variant that parses without the try of safeJsonParse: the SyntaxError
\* of JSON.parse reaches the caller
Classify_Throwing(value) ==
  LET raw == Trim(value)
      r == ParseValue(raw, 1)
      parsed == safeJsonParse(raw)
  IN  IF ~(r.ok /\ SpaceRunEnd(raw, r.next) > Len(raw)) THEN [as |-> "SyntaxError", raw |-> raw]
      ELSE IF isProductResult(parsed) THEN [as |-> "RecommendationBundle", data |-> parsed]
      ELSE IF isSlotState(parsed) THEN [as |-> "SlotState", data |-> parsed]
      ELSE [as |-> "Unclassified", raw |-> raw]

\* lines 511-523 of AssistantBubble: what a json block is shown as
Classify(value) ==
  LET raw == Trim(value)
      parsed == safeJsonParse(raw)
  IN  IF isProductResult(parsed) THEN [as |-> "RecommendationBundle", data |-> parsed]
      ELSE IF isSlotState(parsed) THEN [as |-> "SlotState", data |-> parsed]
      ELSE [as |-> "Unclassified", raw |-> raw]

---------------------------------------------------------------------------
(* The requests: an utterance is made of at most MaxWords phrases; said    *)
(* keeps the numbers of the phrases that make user_message                 *)

MaxWords == 2

Phrases ==
  <<\* 1: 매달 50만원씩 넣을 건데
    <<"Mae", "Dal", " ", "5", "0", "Man", "Won", "Ssig", " ", "Neoh", "Eul", " ", "Geon", "De", " ">>,
    \* 2: 1년 정도 생각해요
    <<"1", "Nyeon", " ", "Jeong", "Do", " ", "Saeng", "Gag", "Hae", "Yo">>,
    \* 3: 월 소득 300만원이고
    <<"Wol", " ", "So", "Deug", " ", "3", "0", "0", "Man", "Won", "I", "Go", " ">>,
    \* 4: 5천만원 필요해요
    <<"5", "Cheon", "Man", "Won", " ", "Pil", "Yo", "Hae", "Yo">>,
    \* 5: 1.5억 정도 넣으려고요
    <<"1", ".", "5", "Eog", " ", "Jeong", "Do", " ", "Neoh", "Eu", "Ryeo", "Go", "Yo">>,
    \* 6: 12개월
    <<"1", "2", "Gae", "Wol", " ">>,
    \* 7: 6달
    <<"6", "Dal", " ">>,
    \* 8: 3 Months
    <<"3", " ", "M", "o", "n", "t", "h", "s", " ">>,
    \* 9: 0개월
    <<"0", "Gae", "Wol", " ">>,
    \* 10: 2백만원
    <<"2", "Baeg", "Man", "Won", " ">>,
    \* 11: 1,000.5원
    <<"1", ",", "0", "0", "0", ".", "5", "Won", " ">>,
    \* 12: 50 만
    <<"5", "0", " ", "Man", " ">>,
    \* 13: 0원
    <<"0", "Won", " ">>,
    \* 14: 비대면 가입
    <<"Bi", "Dae", "Myeon", " ", "Ga", "Ib", " ">>,
    \* 15: 자동이체 싫어요
    <<"Ja", "Dong", "I", "Che", " ", "Silh", "Eo", "Yo", " ">>,
    \* 16: 월급 안받아요
    <<"Wol", "Geub", " ", "An", "Bad", "A", "Yo", " ">>,
    \* 17: 잘 모르겠어요
    <<"Jal", " ", "Mo", "Reu", "Gess", "Eo", "Yo", " ">>,
    \* 18: 카드 안써요 영업점 방문
    <<"Ka", "Deu", " ", "An", "Sseo", "Yo", " ", "Yeong", "Eob", "Jeom", " ", "Bang", "Mun", " ">>,
    \* 19: 40대 메인 없어요
    <<"4", "0", "Dae", " ", "Me", "In", " ", "Eobs", "Eo", "Yo", " ">>>>

\* 적금, 예금, 대출, 펀드, 예금적금, 예금담보대출
ProductTypes ==
  {<<"Jeog", "Geum">>,
   <<"Ye", "Geum">>,
   <<"Dae", "Chul">>,
   <<"Peon", "Deu">>,
   <<"Ye", "Geum", "Jeog", "Geum">>,
   <<"Ye", "Geum", "Dam", "Bo", "Dae", "Chul">>}

---------------------------------------------------------------------------
(* The product catalog (products/ProductsClient.tsx 270-341): the user      *)
(* picks a product type and a sort order, types a query and presses search; *)
(* each of these but typing calls fetchProducts, which asks the backend and *)
(* shows what it answers.  inFlight holds the calls of fetchProducts that   *)
(* are under way, oldest first; the call made last is marked latest.  The   *)
(* list of types stays the one the page starts with.                        *)

\* the product types shown as tabs beside 전체
MaxTypes == 2

\* the calls of fetchProducts under way at a time
MaxInFlight == 2

\* 전체
AllTypes == <<"Jeon", "Che">>

\* 적금, 예금, 연금저축, 주담대, 전세자금대출, 신용대출
FALLBACK_TYPES ==
  <<<<"Jeog", "Geum">>,
    <<"Ye", "Geum">>,
    <<"Yeon", "Geum", "Jeo", "Chug">>,
    <<"Ju", "Dam", "Dae">>,
    <<"Jeon", "Se", "Ja", "Geum", "Dae", "Chul">>,
    <<"Sin", "Yong", "Dae", "Chul">>>>

types == <<AllTypes>> \o SubSeq(FALLBACK_TYPES, 1, MaxTypes)

\* the sort orders offered
SortOptions == <<"rate_desc", "rate_asc">>

\* what the user types as a query: nothing, spaces, 국민
Queries == <<<<>>, <<" ", " ">>, <<"Gug", "Min">>>>

\* the products the backend holds, by rising rate: 국민 예금 2, 국민 적금 3,
\* 신한 적금 4
Catalog ==
  <<[product_type |-> <<"Ye", "Geum">>, bank |-> <<"Gug", "Min">>, rate |-> 2],
    [product_type |-> <<"Jeog", "Geum">>, bank |-> <<"Gug", "Min">>, rate |-> 3],
    [product_type |-> <<"Jeog", "Geum">>, bank |-> <<"Sin", "Han">>, rate |-> 4]>>

Reversed(s) == [k \in 1..Len(s) |-> s[Len(s) + 1 - k]]

\* the backend answers a request for a product type, a sort order and a query
BackendProducts(productType, order, query) ==
  LET found == SelectSeq(Catalog, LAMBDA p :
                 /\ p.product_type = productType
                 /\ (query = <<>> \/ \E i \in 1..Len(p.bank) : StartsWithAt(p.bank, i, query)))
  IN  IF order = "rate_desc" THEN Reversed(found) ELSE found

\* the message of the error fetchOneType throws for a response that is not
\* ok: 500 {"detail":"error"}
ErrorMessage ==
  <<"5", "0", "0", " ", "{", "\"", "d", "e", "t", "a", "i", "l", "\"", ":", "\"", "e", "r",
  "r", "o", "r", "\"", "}">>

\* lines 300-315, fetchOneType: what one request settles with
Fulfilled(list) == [status |-> "fulfilled", value |-> list, message |-> <<>>]

Rejected(message) == [status |-> "rejected", value |-> <<>>, message |-> message]

FetchOutcome(call, k, ok) ==
  IF ok THEN Fulfilled(BackendProducts(call.of[k], call.sort, Trim(call.q)))
  ELSE Rejected(ErrorMessage)

\* lines 317-326: fetchProducts up to its await, called in a render with
\* the type t, the sort order s and the query typed
CallOf(t, s, typed) ==
  LET allTypes == SelectSeq(types, LAMBDA x : x # AllTypes)
      of == IF t = AllTypes THEN allTypes ELSE <<t>>
  IN  [type |-> t, sort |-> s, q |-> typed, latest |-> TRUE, of |-> of,
       got |-> [k \in 1..Len(of) |-> Undefined]]

\* lines 338-341: the call the effect makes when the page is mounted
MountCall == CallOf(AllTypes, "rate_desc", <<>>)

---------------------------------------------------------------------------
(* The state machine: the client builds a request, POST answers it *)

Init ==
  /\ product_type = <<>>
  /\ user_message = <<>>
  /\ said = <<>>
  /\ out = Undefined
  /\ calls = <<>>
  /\ regexLastIndex = 1
  /\ bubbleContent = <<>>
  /\ parts = <<>>
  /\ bubbleBlocks = Undefined
  /\ messages = <<>>
  /\ chatInput = <<>>
  /\ isLoading = FALSE
  /\ pending = <<>>
  /\ spData = Undefined
  /\ decoded = Undefined
  /\ type = AllTypes
  /\ sort = "rate_desc"
  /\ q = <<>>
  /\ items = <<>>
  /\ loading = TRUE
  /\ errorText = <<>>
  /\ inFlight = <<MountCall>>

\* the user adds a phrase to the utterance
Say(w) ==
  /\ out = Undefined
  /\ Len(said) < MaxWords
  /\ user_message' = user_message \o Phrases[w]
  /\ said' = Append(said, w)
  /\ UNCHANGED <<product_type, out, callVars, viewVars, chatVars, shareVars, productsVars>>

\* lines 130-140: the handler answers the request body
POST(pt, lq) ==
  /\ out = Undefined
  /\ product_type' = pt
  /\ out' = Some(ruleBasedExtract([product_type |-> pt,
                                   last_questions |-> lq,
                                   user_message |-> user_message]))
  /\ UNCHANGED <<user_message, said, callVars, viewVars, chatVars, shareVars, productsVars>>

\* the next request starts from an empty utterance
NewRequest ==
  /\ out # Undefined
  /\ product_type' = <<>>
  /\ user_message' = <<>>
  /\ said' = <<>>
  /\ out' = Undefined
  /\ UNCHANGED <<callVars, viewVars, chatVars, shareVars, productsVars>>

Next ==
  \/ \E w \in 1..Len(Phrases) : Say(w)
  \/ \E pt \in ProductTypes : POST(pt, <<>>)
  \/ NewRequest

Spec == Init /\ [][Next]_vars

---------------------------------------------------------------------------
(* Sequences of calls: calls keeps every call made with its arguments and   *)
(* its result; regexLastIndex is the lastIndex that the latest call of      *)
(* splitTextAndJsonBlocks left in its regular expression.                    *)

MaxCalls == 2

\* assistant messages: a whole payload, text around one fence, plain text,
\* two fences (the first opened with a capital J)
Contents ==
  <<<<"{", "\"", "p", "r", "o", "d", "u", "c", "t", "s", "\"", ":", "[", "]", "}">>,
    <<"Chu", "Cheon", " ", "Gyeol", "Gwa", "Ib", "Ni", "Da", "\n", "BACKTICK",
      "BACKTICK", "BACKTICK", "j", "s", "o", "n", "\n", "{", "\"", "p", "r", "o",
      "d", "u", "c", "t", "s", "\"", ":", "[", "]", "}", "\n", "BACKTICK",
      "BACKTICK", "BACKTICK", "\n", "Gam", "Sa", "Hab", "Ni", "Da">>,
    <<"An", "Nyeong", "Ha", "Se", "Yo">>,
    <<"BACKTICK", "BACKTICK", "BACKTICK", "J", "s", "o", "n", " ", "{", "\"", "f", "o",
      "o", "\"", ":", "1", "}", " ", "BACKTICK", "BACKTICK", "BACKTICK", " ",
      "BACKTICK", "BACKTICK", "BACKTICK", "j", "s", "o", "n", "\n", "[", "]",
      "BACKTICK", "BACKTICK", "BACKTICK">>>>

\* the texts of json blocks: a recommendation bundle, a slot state, another
\* object, and a text JSON.parse rejects
Payloads ==
  <<<<"{", "\"", "p", "r", "o", "d", "u", "c", "t", "s", "\"", ":", "[", "]", "}">>,
    <<"{", "\"", "s", "l", "o", "t", "s", "\"", ":", "{", "}", ",", "\"", "e", "l",
      "i", "g", "i", "b", "i", "l", "i", "t", "y", "\"", ":", "{", "}", ",", "\"",
      "m", "e", "t", "a", "\"", ":", "{", "\"", "u", "s", "e", "r", "_", "u", "n",
      "c", "e", "r", "t", "a", "i", "n", "\"", ":", "f", "a", "l", "s", "e", "}",
      "}">>,
    <<"{", "\"", "f", "o", "o", "\"", ":", "1", "}">>,
    <<"{", "\"", "p", "r", "o", "d", "u", "c", "t", "s", "\"", ":">>>>

\* 월 소득은 얼마인가요?
IncomeQuestion ==
  <<"Wol", " ", "So", "Deug", "Eun", " ", "Eol", "Ma", "In", "Ga", "Yo", "?">>

\* the earlier questions of the assistant passed with a request
LastQuestions == {<<>>, <<IncomeQuestion>>}

\* 적금, 대출
CallProductTypes == {<<"Jeog", "Geum">>, <<"Dae", "Chul">>}

\* the utterances of the calls: the two examples, 5천만원 필요해요, nothing
CallUtterances ==
  {Phrases[1] \o Phrases[2], Phrases[3] \o Phrases[4], Phrases[4], <<>>}

InitCalls == Init

CallExtract(pt, lq, msg) ==
  /\ Len(calls) < MaxCalls
  /\ calls' = Append(calls,
       [op |-> "extract", product_type |-> pt, last_questions |-> lq, user_message |-> msg,
        result |-> ruleBasedExtract([product_type |-> pt, last_questions |-> lq,
                                     user_message |-> msg])])
  /\ UNCHANGED <<extractVars, regexLastIndex, viewVars, chatVars, shareVars, productsVars>>

CallSegment(content) ==
  /\ Len(calls) < MaxCalls
  /\ calls' = Append(calls,
       [op |-> "segment", content |-> content, result |-> splitTextAndJsonBlocks(content)])
  /\ regexLastIndex' = IF IsWholePayload(content) THEN regexLastIndex
                  ELSE SplitLoop(content, 1, <<>>).lastIndex
  /\ UNCHANGED <<extractVars, viewVars, chatVars, shareVars, productsVars>>

CallClassify(value) ==
  /\ Len(calls) < MaxCalls
  /\ calls' = Append(calls, [op |-> "classify", value |-> value, result |-> Classify(value)])
  /\ UNCHANGED <<extractVars, regexLastIndex, viewVars, chatVars, shareVars, productsVars>>

NextCalls ==
  \/ \E pt \in CallProductTypes, lq \in LastQuestions, msg \in CallUtterances :
       CallExtract(pt, lq, msg)
  \/ \E c \in 1..Len(Contents) : CallSegment(Contents[c])
  \/ \E v \in 1..Len(Payloads) : CallClassify(Payloads[v])

SpecCalls == InitCalls /\ [][NextCalls]_vars

---------------------------------------------------------------------------
(* The chat view: an assistant message is put together, then AssistantBubble *)
(* splits it into blocks and decides how each json block is shown.  parts    *)
(* keeps what the message was made of.                                       *)

MaxParts == 3

\* texts an assistant message is made of
Pieces ==
  <<\* 1: 추천 결과입니다
    <<"Chu", "Cheon", " ", "Gyeol", "Gwa", "Ib", "Ni", "Da">>,
    \* 2: a line break and a space
    <<"\n", " ">>,
    \* 3: a fenced recommendation bundle, with line breaks inside the fence
    <<"BACKTICK", "BACKTICK", "BACKTICK", "j", "s", "o", "n", "\n", "{", "\"", "p", "r",
      "o", "d", "u", "c", "t", "s", "\"", ":", "[", "]", "}", "\n", "BACKTICK",
      "BACKTICK", "BACKTICK">>,
    \* 4: a fenced slot state, without whitespace inside the fence
    <<"BACKTICK", "BACKTICK", "BACKTICK", "j", "s", "o", "n", "{", "\"", "s", "l", "o",
      "t", "s", "\"", ":", "{", "}", ",", "\"", "e", "l", "i", "g", "i", "b", "i", "l",
      "i", "t", "y", "\"", ":", "{", "}", ",", "\"", "m", "e", "t", "a", "\"", ":", "{",
      "\"", "u", "s", "e", "r", "_", "u", "n", "c", "e", "r", "t", "a", "i", "n", "\"",
      ":", "t", "r", "u", "e", "}", "}", "BACKTICK", "BACKTICK", "BACKTICK">>,
    \* 5: a fence with only whitespace inside
    <<"BACKTICK", "BACKTICK", "BACKTICK", "j", "s", "o", "n", " ", "\n", "BACKTICK",
      "BACKTICK", "BACKTICK">>,
    \* 6: a bare recommendation bundle
    <<"{", "\"", "p", "r", "o", "d", "u", "c", "t", "s", "\"", ":", "[", "]", "}">>,
    \* 7: a payload with fence markers inside a string value
    <<"{", "\"", "r", "e", "p", "l", "y", "\"", ":", "\"", "BACKTICK", "BACKTICK",
      "BACKTICK", "j", "s", "o", "n", " ", "{", "}", " ", "BACKTICK", "BACKTICK",
      "BACKTICK", "\"", "}">>,
    \* 8: a fence around a text JSON.parse rejects
    <<"BACKTICK", "BACKTICK", "BACKTICK", "j", "s", "o", "n", " ", "{", "\"", "p", "r",
      "o", "d", "u", "c", "t", "s", "\"", ":", " ", "BACKTICK", "BACKTICK", "BACKTICK">>,
    \* 9: a fence opened with a capital letter
    <<"BACKTICK", "BACKTICK", "BACKTICK", "J", "s", "o", "n", "\n", "{", "\"", "f", "o",
      "o", "\"", ":", "1", "}", "BACKTICK", "BACKTICK", "BACKTICK">>,
    \* 10: a fence that is never closed
    <<"BACKTICK", "BACKTICK", "BACKTICK", "j", "s", "o", "n", " ", "{">>>>

\* the ways a payload writes its products member
ProductsOptions ==
  <<\* 1: no products member
    <<>>,
    \* 2: an empty array
    <<"\"", "p", "r", "o", "d", "u", "c", "t", "s", "\"", ":", "[", "]">>,
    \* 3: an array of one product
    <<"\"", "p", "r", "o", "d", "u", "c", "t", "s", "\"", ":", "[", "{", "\"", "n", "a",
      "m", "e", "\"", ":", "\"", "a", "\"", "}", "]">>,
    \* 4: a string
    <<"\"", "p", "r", "o", "d", "u", "c", "t", "s", "\"", ":", "\"", "n", "o", "n", "e",
      "\"">>,
    \* 5: null
    <<"\"", "p", "r", "o", "d", "u", "c", "t", "s", "\"", ":", "n", "u", "l", "l">>>>

\* the ways a payload writes its slots member
SlotsOptions ==
  <<\* 1: no slots member
    <<>>,
    \* 2: an empty object
    <<"\"", "s", "l", "o", "t", "s", "\"", ":", "{", "}">>,
    \* 3: an object with a slot
    <<"\"", "s", "l", "o", "t", "s", "\"", ":", "{", "\"", "t", "e", "r", "m", "_", "m",
      "o", "n", "t", "h", "s", "\"", ":", "1", "2", "}">>,
    \* 4: null
    <<"\"", "s", "l", "o", "t", "s", "\"", ":", "n", "u", "l", "l">>>>

\* the ways a payload writes its eligibility member
EligibilityOptions ==
  <<\* 1: no eligibility member
    <<>>,
    \* 2: an empty object
    <<"\"", "e", "l", "i", "g", "i", "b", "i", "l", "i", "t", "y", "\"", ":", "{", "}">>,
    \* 3: an empty string
    <<"\"", "e", "l", "i", "g", "i", "b", "i", "l", "i", "t", "y", "\"", ":", "\"", "\"">>>>

\* the ways a payload writes its meta member
MetaOptions ==
  <<\* 1: no meta member
    <<>>,
    \* 2: user_uncertain false
    <<"\"", "m", "e", "t", "a", "\"", ":", "{", "\"", "u", "s", "e", "r", "_", "u", "n",
      "c", "e", "r", "t", "a", "i", "n", "\"", ":", "f", "a", "l", "s", "e", "}">>,
    \* 3: user_uncertain a string
    <<"\"", "m", "e", "t", "a", "\"", ":", "{", "\"", "u", "s", "e", "r", "_", "u", "n",
      "c", "e", "r", "t", "a", "i", "n", "\"", ":", "\"", "n", "o", "\"", "}">>,
    \* 4: null
    <<"\"", "m", "e", "t", "a", "\"", ":", "n", "u", "l", "l">>,
    \* 5: no user_uncertain
    <<"\"", "m", "e", "t", "a", "\"", ":", "{", "}">>>>

\* payloads that are no object, and texts JSON.parse rejects
OtherPayloads ==
  <<\* 1: an empty array
    <<"[", "]">>,
    \* 2: an array around a bundle
    <<"[", "{", "\"", "p", "r", "o", "d", "u", "c", "t", "s", "\"", ":", "[", "]", "}",
      "]">>,
    \* 3: a string
    <<"\"", "t", "e", "x", "t", "\"">>,
    \* 4: a number
    <<"5">>,
    \* 5: null
    <<"n", "u", "l", "l">>,
    \* 6: an object that is cut short
    <<"{", "\"", "p", "r", "o", "d", "u", "c", "t", "s", "\"", ":">>,
    \* 7: a word
    <<"p", "r", "o", "d", "u", "c", "t", "s">>,
    \* 8: true
    <<"t", "r", "u", "e">>,
    \* 9: the number 0
    <<"0">>,
    \* 10: false between whitespace
    <<" ", "f", "a", "l", "s", "e", "\n">>,
    \* 11: a string that holds a fence
    <<"\"", "BACKTICK", "BACKTICK", "BACKTICK", "j", "s", "o", "n", " ", "5", " ",
      "BACKTICK", "BACKTICK", "BACKTICK", "\"">>>>

\* the texts joined by commas, the empty ones left out
RECURSIVE JoinMembers(_)
JoinMembers(texts) ==
  IF texts = <<>> THEN <<>>
  ELSE IF Head(texts) = <<>> THEN JoinMembers(Tail(texts))
  ELSE IF JoinMembers(Tail(texts)) = <<>> THEN Head(texts)
  ELSE Head(texts) \o <<",">> \o JoinMembers(Tail(texts))

\* the object a backend writes with the chosen members
PayloadText(p, s, e, m) ==
  <<"{">> \o JoinMembers(<<ProductsOptions[p], SlotsOptions[s],
                           EligibilityOptions[e], MetaOptions[m]>>) \o <<"}">>

\* a payload as a fenced span, or as it is
Fenced(text, fenced) ==
  IF fenced THEN FenceOpen \o <<"\n">> \o text \o <<"\n">> \o FenceClose ELSE text

\* String(n) of a whole number that is not negative
RECURSIVE NumberToString(_)
NumberToString(n) ==
  IF n < 10 THEN <<CHOOSE c \in DOMAIN Digits : Digits[c] = n>>
  ELSE NumberToString(n \div 10) \o NumberToString(n % 10)

\* JSON.stringify of a string of the model (no character needs an escape)
Quoted(chars) == <<"\"">> \o chars \o <<"\"">>

\* the characters of the names and values ruleBasedExtract writes
Chars ==
  ("slots" :> <<"s", "l", "o", "t", "s">>) @@
  ("eligibility" :> <<"e", "l", "i", "g", "i", "b", "i", "l", "i", "t", "y">>) @@
  ("meta" :> <<"m", "e", "t", "a">>) @@
  ("user_uncertain" :>
     <<"u", "s", "e", "r", "_", "u", "n", "c", "e", "r", "t", "a", "i", "n">>) @@
  ("term_months" :> <<"t", "e", "r", "m", "_", "m", "o", "n", "t", "h", "s">>) @@
  ("monthly_amount" :>
     <<"m", "o", "n", "t", "h", "l", "y", "_", "a", "m", "o", "u", "n", "t">>) @@
  ("lump_sum" :> <<"l", "u", "m", "p", "_", "s", "u", "m">>) @@
  ("income_monthly" :>
     <<"i", "n", "c", "o", "m", "e", "_", "m", "o", "n", "t", "h", "l", "y">>) @@
  ("desired_amount" :>
     <<"d", "e", "s", "i", "r", "e", "d", "_", "a", "m", "o", "u", "n", "t">>) @@
  ("salary_transfer" :>
     <<"s", "a", "l", "a", "r", "y", "_", "t", "r", "a", "n", "s", "f", "e", "r">>) @@
  ("auto_transfer" :> <<"a", "u", "t", "o", "_", "t", "r", "a", "n", "s", "f", "e", "r">>) @@
  ("card_spend" :> <<"c", "a", "r", "d", "_", "s", "p", "e", "n", "d">>) @@
  ("primary_bank" :> <<"p", "r", "i", "m", "a", "r", "y", "_", "b", "a", "n", "k">>) @@
  ("non_face" :> <<"n", "o", "n", "_", "f", "a", "c", "e">>) @@
  ("youth" :> <<"y", "o", "u", "t", "h">>) @@
  ("yes" :> <<"y", "e", "s">>) @@
  ("no" :> <<"n", "o">>) @@
  ("unknown" :> <<"u", "n", "k", "n", "o", "w", "n">>) @@
  ("true" :> <<"t", "r", "u", "e">>) @@
  ("false" :> <<"f", "a", "l", "s", "e">>)

\* the properties of the response in the order the extractor creates them:
\* term_months (line 91) before the amount slot (lines 96-111), the
\* eligibility fields as baseOutput lists them
SlotOrder ==
  <<"term_months", "monthly_amount", "lump_sum", "income_monthly", "desired_amount">>

EligibilityOrder ==
  <<"salary_transfer", "auto_transfer", "card_spend", "primary_bank", "non_face", "youth">>

\* JSON.stringify of a value of the response: a number or a string
WriteValue(v, isNumber) == IF isNumber THEN NumberToString(v) ELSE Quoted(Chars[v])

\* the members name:value of obj for the names of order that obj has
RECURSIVE MemberTexts(_, _, _)
MemberTexts(obj, order, isNumber) ==
  IF order = <<>> THEN <<>>
  ELSE (IF Head(order) \in DOMAIN obj
        THEN <<Quoted(Chars[Head(order)]) \o <<":">> \o WriteValue(obj[Head(order)], isNumber)>>
        ELSE <<>>)
       \o MemberTexts(obj, Tail(order), isNumber)

\* line 139, NextResponse.json(extracted): the body is JSON.stringify(extracted)
NextResponseJson(extracted) ==
  LET slots == <<"{">> \o JoinMembers(MemberTexts(extracted.slots, SlotOrder, TRUE))
                 \o <<"}">>
      eligibility == <<"{">> \o JoinMembers(MemberTexts(extracted.eligibility,
                                                        EligibilityOrder, FALSE))
                       \o <<"}">>
      meta == <<"{">> \o Quoted(Chars["user_uncertain"]) \o <<":">>
                \o Chars[IF extracted.meta.user_uncertain THEN "true" ELSE "false"]
                \o <<"}">>
  IN  <<"{">> \o Quoted(Chars["slots"]) \o <<":">> \o slots \o <<",">>
        \o Quoted(Chars["eligibility"]) \o <<":">> \o eligibility \o <<",">>
        \o Quoted(Chars["meta"]) \o <<":">> \o meta \o <<"}">>

\* lines 503-523: a text block is shown trimmed, a json block as Classify says
RenderBlock(b) ==
  IF b.kind = "text"
  THEN [kind |-> "text", value |-> b.value, text |-> Trim(b.value)]
  ELSE [kind |-> "json", value |-> b.value, shown |-> Classify(b.value)]

\* lines 498-523: AssistantBubble
AssistantBubble(content) ==
  LET blocks == splitTextAndJsonBlocks(content)
  IN  [k \in 1..Len(blocks) |-> RenderBlock(blocks[k])]

\* the backend goes on writing its reply
Compose(k) ==
  /\ bubbleBlocks = Undefined
  /\ Len(parts) < MaxParts
  /\ \A i \in 1..Len(parts) : parts[i].kind = "piece"
  /\ bubbleContent' = bubbleContent \o Pieces[k]
  /\ parts' = Append(parts, [kind |-> "piece", n |-> k])
  /\ UNCHANGED <<bubbleBlocks, extractVars, callVars, chatVars, shareVars, productsVars>>

\* the backend replies with an object, fenced or bare
ComposePayload(p, s, e, m, fenced) ==
  /\ bubbleBlocks = Undefined
  /\ parts = <<>>
  /\ bubbleContent' = Fenced(PayloadText(p, s, e, m), fenced)
  /\ parts' = <<[kind |-> "payload", products |-> p, slots |-> s, eligibility |-> e,
                 meta |-> m, fenced |-> fenced]>>
  /\ UNCHANGED <<bubbleBlocks, extractVars, callVars, chatVars, shareVars, productsVars>>

\* the backend replies with another payload, fenced or bare
ComposeOther(n, fenced) ==
  /\ bubbleBlocks = Undefined
  /\ parts = <<>>
  /\ bubbleContent' = Fenced(OtherPayloads[n], fenced)
  /\ parts' = <<[kind |-> "other", n |-> n, fenced |-> fenced]>>
  /\ UNCHANGED <<bubbleBlocks, extractVars, callVars, chatVars, shareVars, productsVars>>

\* the response of the extractor is passed on as the whole reply
RelayExtracted(pt, msg) ==
  /\ bubbleBlocks = Undefined
  /\ parts = <<>>
  /\ bubbleContent' = NextResponseJson(ruleBasedExtract(
       [product_type |-> pt, last_questions |-> <<>>, user_message |-> msg]))
  /\ parts' = <<[kind |-> "record", product_type |-> pt, user_message |-> msg]>>
  /\ UNCHANGED <<bubbleBlocks, extractVars, callVars, chatVars, shareVars, productsVars>>

\* the message is shown
Render ==
  /\ bubbleBlocks = Undefined
  /\ bubbleBlocks' = Some(AssistantBubble(bubbleContent))
  /\ UNCHANGED <<bubbleContent, parts, extractVars, callVars, chatVars, shareVars, productsVars>>

\* the next message
NewBubble ==
  /\ bubbleBlocks # Undefined
  /\ bubbleContent' = <<>>
  /\ parts' = <<>>
  /\ bubbleBlocks' = Undefined
  /\ UNCHANGED <<extractVars, callVars, chatVars, shareVars, productsVars>>

\* the utterances whose responses are passed on: those of the calls, 0원 and
\* 12개월 with an amount
RelayUtterances == CallUtterances \cup {Phrases[13], Phrases[6] \o Phrases[4]}

NextView ==
  \/ \E k \in 1..Len(Pieces) : Compose(k)
  \/ \E p \in 1..Len(ProductsOptions), s \in 1..Len(SlotsOptions),
        e \in 1..Len(EligibilityOptions), m \in 1..Len(MetaOptions), fenced \in BOOLEAN :
       ComposePayload(p, s, e, m, fenced)
  \/ \E n \in 1..Len(OtherPayloads), fenced \in BOOLEAN : ComposeOther(n, fenced)
  \/ \E pt \in CallProductTypes, msg \in RelayUtterances : RelayExtracted(pt, msg)
  \/ Render
  \/ NewBubble

SpecView == Init /\ [][NextView]_vars

---------------------------------------------------------------------------
(* The chat page (page.tsx 530-574): the user types, sendMessage posts the  *)
(* input to the backend and appends the reply.  pending holds the calls of  *)
(* sendMessage that are under way, oldest first, each with its position:    *)
(* waiting for fetch, or for the body of the response that arrived.         *)

\* the turns of a conversation
MaxTurns == 2

\* what the user types into the input
Typed ==
  <<\* 1: 적금 추천해줘
    <<"Jeog", "Geum", " ", "Chu", "Cheon", "Hae", "Jwo">>,
    \* 2: blank
    <<" ", " ">>,
    \* 3: 12개월
    <<"1", "2", "Gae", "Wol">>>>

\* the responses of the backend: status and body
Responses ==
  <<\* 1: a reply
    [status |-> 200, body |->
      <<"{", "\"", "r", "e", "p", "l", "y", "\"", ":", "\"", "Chu", "Cheon", " ",
        "Gyeol", "Gwa", "Ib", "Ni", "Da", "\"", "}">>],
    \* 2: a bare string
    [status |-> 200, body |->
      <<"\"", "Jam", "Si", "Man", "Yo", "\"">>],
    \* 3: an object without reply
    [status |-> 200, body |->
      <<"{", "\"", "p", "r", "o", "d", "u", "c", "t", "s", "\"", ":", "[", "]", "}">>],
    \* 4: a reply that is no string
    [status |-> 200, body |->
      <<"{", "\"", "r", "e", "p", "l", "y", "\"", ":", "n", "u", "l", "l", ",", "\"",
        "i", "t", "e", "m", "s", "\"", ":", "[", "\"", "a", "\"", ",", "{", "\"", "b",
        "\"", ":", "t", "r", "u", "e", "}", "]", "}">>],
    \* 5: an empty body
    [status |-> 200, body |->
      <<>>],
    \* 6: a page of a gateway
    [status |-> 502, body |->
      <<"<", "h", "t", "m", "l", ">", "B", "a", "d", " ", "G", "a", "t", "e", "w", "a",
        "y", "<", "/", "h", "t", "m", "l", ">">>],
    \* 7: plain text
    [status |-> 504, body |->
      <<"G", "a", "t", "e", "w", "a", "y", " ", "T", "i", "m", "e", "o", "u", "t">>],
    \* 8: an error with a JSON body
    [status |-> 404, body |->
      <<"{", "\"", "d", "e", "t", "a", "i", "l", "\"", ":", "\"", "N", "o", "t", " ",
        "F", "o", "u", "n", "d", "\"", "}">>],
    \* 9: a validation error
    [status |-> 422, body |->
      <<"{", "\"", "d", "e", "t", "a", "i", "l", "\"", ":", "[", "{", "\"", "m", "s",
        "g", "\"", ":", "\"", "f", "i", "e", "l", "d", " ", "r", "e", "q", "u", "i", "r",
        "e", "d", "\"", "}", "]", "}">>]>>

\* line 568: 연결이 원활하지 않습니다. 다시 시도해주세요.
RetryPrompt ==
  <<"Yeon", "Gyeol", "I", " ", "Won", "Hwal", "Ha", "Ji", " ", "Anh", "Seub", "Ni", "Da",
    ".", " ", "Da", "Si", " ", "Si", "Do", "Hae", "Ju", "Se", "Yo", ".">>

\* n spaces
Spaces(n) == [k \in 1..n |-> " "]

RECURSIVE JsonStringify(_, _), StringifyEntries(_, _, _)

\* JSON.stringify(v, null, 2) for a value of the model that holds no number,
\* at nesting depth
JsonStringify(v, depth) ==
  CASE v.type = "null" -> <<"n", "u", "l", "l">>
    [] v.type = "boolean" -> Chars[IF v.value THEN "true" ELSE "false"]
    [] v.type = "string" -> Quoted(v.chars)
    [] v.type = "object" ->
         IF v.members = <<>> THEN <<"{", "}">>
         ELSE <<"{", "\n">> \o StringifyEntries(v.members, TRUE, depth + 1)
                \o <<"\n">> \o Spaces(2 * depth) \o <<"}">>
    [] v.type = "array" ->
         IF v.items = <<>> THEN <<"[", "]">>
         ELSE <<"[", "\n">> \o StringifyEntries(v.items, FALSE, depth + 1)
                \o <<"\n">> \o Spaces(2 * depth) \o <<"]">>

\* the members or elements, one on a line
StringifyEntries(entries, isObject, depth) ==
  LET first == Head(entries)
      line == Spaces(2 * depth)
                \o (IF isObject
                    THEN Quoted(first.key) \o <<":", " ">> \o JsonStringify(first.value, depth)
                    ELSE JsonStringify(first, depth))
  IN  IF Len(entries) = 1 THEN line
      ELSE line \o <<",", "\n">> \o StringifyEntries(Tail(entries), isObject, depth)

\* res.json(): the value of the body, or a rejection
ResJson(body) ==
  LET r == ParseValue(body, 1)
  IN  IF r.ok /\ SpaceRunEnd(body, r.next) > Len(body) THEN Some(r.val) ELSE Undefined

\* lines 558-563
replyText(data) ==
  IF Get(data, <<"r", "e", "p", "l", "y">>).type = "string"
  THEN Get(data, <<"r", "e", "p", "l", "y">>).chars
  ELSE IF data.type = "string" THEN data.chars
  ELSE JsonStringify(data, 0)

\* line 616, onChange: setInput
Type(k) ==
  /\ chatInput' = Typed[k]
  /\ UNCHANGED <<messages, isLoading, pending, extractVars, callVars, viewVars, shareVars, productsVars>>

\* a variant that sends while a call is under way
sendMessage_WhileLoading ==
  /\ Len(messages) < 2 * MaxTurns
  /\ IF Trim(chatInput) = <<>>
     THEN UNCHANGED chatVars
     ELSE /\ messages' = Append(messages, [role |-> "user", content |-> chatInput])
          /\ chatInput' = <<>>
          /\ isLoading' = TRUE
          /\ pending' = Append(pending, [at |-> "fetch", status |-> 0, body |-> <<>>])
  /\ UNCHANGED <<extractVars, callVars, viewVars, shareVars, productsVars>>

\* lines 540-554: sendMessage up to the call of fetch
sendMessage ==
  /\ Len(messages) < 2 * MaxTurns
  /\ IF Trim(chatInput) = <<>> \/ isLoading
     THEN UNCHANGED chatVars
     ELSE /\ messages' = Append(messages, [role |-> "user", content |-> chatInput])
          /\ chatInput' = <<>>
          /\ isLoading' = TRUE
          /\ pending' = Append(pending, [at |-> "fetch", status |-> 0, body |-> <<>>])
  /\ UNCHANGED <<extractVars, callVars, viewVars, shareVars, productsVars>>

\* the calls under way without call i
CallsWithout(i) == [k \in 1..(Len(pending) - 1) |-> IF k < i THEN pending[k] ELSE pending[k + 1]]

\* lines 566-572: fetch rejects, catch and finally
FetchRejects(i) ==
  /\ pending[i].at = "fetch"
  /\ messages' = Append(messages, [role |-> "assistant", content |-> RetryPrompt])
  /\ isLoading' = FALSE
  /\ pending' = CallsWithout(i)
  /\ UNCHANGED <<chatInput, extractVars, callVars, viewVars, shareVars, productsVars>>

\* lines 550-556: fetch resolves with the response, whatever its status, and
\* res.json() starts reading the body
FetchResolves(i, r) ==
  /\ pending[i].at = "fetch"
  /\ pending' = [pending EXCEPT ![i] = [at |-> "json", status |-> Responses[r].status,
                                        body |-> Responses[r].body]]
  /\ UNCHANGED <<messages, chatInput, isLoading, extractVars, callVars, viewVars, shareVars, productsVars>>

\* a variant without the finally clause
BodySettles_NoFinally(i) ==
  /\ pending[i].at = "json"
  /\ LET data == ResJson(pending[i].body)
     IN  messages' = Append(messages,
           [role |-> "assistant",
            content |-> IF data = Undefined THEN RetryPrompt ELSE replyText(data[1])])
  /\ UNCHANGED isLoading
  /\ pending' = CallsWithout(i)
  /\ UNCHANGED <<chatInput, extractVars, callVars, viewVars, shareVars, productsVars>>

\* lines 556-572: res.json() settles; the reply is appended, or the catch
\* clause appends the retry prompt; finally clears the loading flag
BodySettles(i) ==
  /\ pending[i].at = "json"
  /\ LET data == ResJson(pending[i].body)
     IN  messages' = Append(messages,
           [role |-> "assistant",
            content |-> IF data = Undefined THEN RetryPrompt ELSE replyText(data[1])])
  /\ isLoading' = FALSE
  /\ pending' = CallsWithout(i)
  /\ UNCHANGED <<chatInput, extractVars, callVars, viewVars, shareVars, productsVars>>

NextChat ==
  \/ \E k \in 1..Len(Typed) : Type(k)
  \/ sendMessage
  \/ \E i \in 1..Len(pending) : FetchRejects(i)
  \/ \E i \in 1..Len(pending) : \E r \in 1..Len(Responses) : FetchResolves(i, r)
  \/ \E i \in 1..Len(pending) : BodySettles(i)

SpecChat == Init /\ [][NextChat]_vars

---------------------------------------------------------------------------

(* The share page (share/page.tsx): the data parameter of the link is       *)
(* base64url text of UTF-8 JSON.  A binary string, as atob returns it, is a *)
(* sequence of byte values; the characters of the decoded text are those of *)
(* the other texts of this module, and a character that none of them holds  *)
(* is written U+ followed by its code point.                                *)

\* the characters a link may lose at its end
MaxCut == 2

\* the values of the data parameter that links carry: the base64url text of
\* a JSON text, and what the page is to make of it
ShareLinks ==
  <<\* 1: the envelope of one product: {"v":1,"created_at":"t","data":{"products":[{"name":"적금"}]}}
    [of |-> "envelope", raw |->
      <<"e", "y", "J", "2", "I", "j", "o", "x", "L", "C", "J", "j", "c", "m", "V", "h",
        "d", "G", "V", "k", "X", "2", "F", "0", "I", "j", "o", "i", "d", "C", "I", "s",
        "I", "m", "R", "h", "d", "G", "E", "i", "O", "n", "s", "i", "c", "H", "J", "v",
        "Z", "H", "V", "j", "d", "H", "M", "i", "O", "l", "t", "7", "I", "m", "5", "h",
        "b", "W", "U", "i", "O", "i", "L", "s", "o", "I", "H", "q", "u", "I", "g", "i",
        "f", "V", "1", "9", "f", "Q">>],
    \* 2: the envelope of no product: {"v":1,"created_at":"t","data":{"products":[]}}
    [of |-> "envelope", raw |->
      <<"e", "y", "J", "2", "I", "j", "o", "x", "L", "C", "J", "j", "c", "m", "V", "h",
        "d", "G", "V", "k", "X", "2", "F", "0", "I", "j", "o", "i", "d", "C", "I", "s",
        "I", "m", "R", "h", "d", "G", "E", "i", "O", "n", "s", "i", "c", "H", "J", "v",
        "Z", "H", "V", "j", "d", "H", "M", "i", "O", "l", "t", "d", "f", "X", "0">>],
    \* 3: a bare bundle, with - in the link: {"products":[{"name":"a~?"}]}
    [of |-> "bare", raw |->
      <<"e", "y", "J", "w", "c", "m", "9", "k", "d", "W", "N", "0", "c", "y", "I", "6",
        "W", "3", "s", "i", "b", "m", "F", "t", "Z", "S", "I", "6", "I", "m", "F", "-",
        "P", "y", "J", "9", "X", "X", "0">>],
    \* 4: a bare bundle, with _ in the link: {"products":[{"name":"a?"}]}
    [of |-> "bare", raw |->
      <<"e", "y", "J", "w", "c", "m", "9", "k", "d", "W", "N", "0", "c", "y", "I", "6",
        "W", "3", "s", "i", "b", "m", "F", "t", "Z", "S", "I", "6", "I", "m", "E", "_",
        "I", "n", "1", "d", "f", "Q">>],
    \* 5: a bare empty bundle: {"products":[]}
    [of |-> "bare", raw |->
      <<"e", "y", "J", "w", "c", "m", "9", "k", "d", "W", "N", "0", "c", "y", "I", "6",
        "W", "1", "1", "9">>],
    \* 6: a bare bundle beside a data member without products: {"data":{},"products":[]}
    [of |-> "bare", raw |->
      <<"e", "y", "J", "k", "Y", "X", "R", "h", "I", "j", "p", "7", "f", "S", "w", "i",
        "c", "H", "J", "v", "Z", "H", "V", "j", "d", "H", "M", "i", "O", "l", "t", "d",
        "f", "Q">>],
    \* 7: no products: {"reason":"x"}
    [of |-> "invalid", raw |->
      <<"e", "y", "J", "y", "Z", "W", "F", "z", "b", "2", "4", "i", "O", "i", "J", "4",
        "I", "n", "0">>],
    \* 8: products that is no array: {"products":"none"}
    [of |-> "invalid", raw |->
      <<"e", "y", "J", "w", "c", "m", "9", "k", "d", "W", "N", "0", "c", "y", "I", "6",
        "I", "m", "5", "v", "b", "m", "U", "i", "f", "Q">>],
    \* 9: an envelope whose products is no array: {"v":1,"data":{"products":"x"}}
    [of |-> "invalid", raw |->
      <<"e", "y", "J", "2", "I", "j", "o", "x", "L", "C", "J", "k", "Y", "X", "R", "h",
        "I", "j", "p", "7", "I", "n", "B", "y", "b", "2", "R", "1", "Y", "3", "R", "z",
        "I", "j", "o", "i", "e", "C", "J", "9", "f", "Q">>],
    \* 10: null: null
    [of |-> "invalid", raw |->
      <<"b", "n", "V", "s", "b", "A">>],
    \* 11: an array: [1]
    [of |-> "invalid", raw |->
      <<"W", "z", "F", "d">>],
    \* 12: text that is no JSON: products?
    [of |-> "invalid", raw |->
      <<"c", "H", "J", "v", "Z", "H", "V", "j", "d", "H", "M", "_">>],
    \* 13: bytes that are no UTF-8: ff fe 7b 7d
    [of |-> "invalid", raw |->
      <<"_", "_", "5", "7", "f", "Q">>]>>

\* the base64 alphabet: the character of value k is at position k + 1
Base64Alphabet ==
  <<"A", "B", "C", "D", "E", "F", "G", "H", "I", "J", "K", "L", "M", "N", "O", "P", "Q",
    "R", "S", "T", "U", "V", "W", "X", "Y", "Z", "a", "b", "c", "d", "e", "f", "g", "h",
    "i", "j", "k", "l", "m", "n", "o", "p", "q", "r", "s", "t", "u", "v", "w", "x", "y",
    "z", "0", "1", "2", "3", "4", "5", "6", "7", "8", "9", "+", "/">>

\* the characters of the code points 32 to 126
Ascii ==
  <<" ", "!", "\"", "#", "$", "%", "&", "'", "(", ")", "*", "+", ",", "-", ".", "/", "0",
    "1", "2", "3", "4", "5", "6", "7", "8", "9", ":", ";", "<", "=", ">", "?", "@", "A",
    "B", "C", "D", "E", "F", "G", "H", "I", "J", "K", "L", "M", "N", "O", "P", "Q", "R",
    "S", "T", "U", "V", "W", "X", "Y", "Z", "[", "\\", "]", "^", "_", "BACKTICK", "a",
    "b", "c", "d", "e", "f", "g", "h", "i", "j", "k", "l", "m", "n", "o", "p", "q", "r",
    "s", "t", "u", "v", "w", "x", "y", "z", "{", "|", "}", "~">>

\* the code points of the Hangul syllables of the links: 적 and 금
HangulSyllables ==
  <<[code |-> 51201, char |-> "Jeog"], [code |-> 44552, char |-> "Geum"]>>

\* the value of every character of the alphabet
Base64Values ==
  [c \in {Base64Alphabet[k] : k \in 1..64} |->
     (CHOOSE k \in 1..64 : Base64Alphabet[k] = c) - 1]

Base64Value(c) == Base64Values[c]

\* line 24: replace(/-/g, "+").replace(/_/g, "/")
ToBase64(b64url) ==
  [k \in 1..Len(b64url) |->
     IF b64url[k] = "-" THEN "+" ELSE IF b64url[k] = "_" THEN "/" ELSE b64url[k]]

\* line 25: "=".repeat((4 - (b64.length % 4)) % 4)
Padding(b64) == [k \in 1..((4 - (Len(b64) % 4)) % 4) |-> "="]

\* the bytes of base64 characters: three of every four characters, one of
\* two left over, two of three left over; byte j takes its bits from two
\* neighbouring characters
Base64Bytes(d) ==
  [j \in 1..((Len(d) * 6) \div 8) |->
     LET g == 4 * ((j - 1) \div 3)
     IN  IF (j - 1) % 3 = 0
         THEN Base64Value(d[g + 1]) * 4 + Base64Value(d[g + 2]) \div 16
         ELSE IF (j - 1) % 3 = 1
         THEN (Base64Value(d[g + 2]) % 16) * 16 + Base64Value(d[g + 3]) \div 4
         ELSE (Base64Value(d[g + 3]) % 4) * 64 + Base64Value(d[g + 4])]

\* window.atob: ASCII whitespace is removed, one or two = are removed from
\* the end of a text of 4n characters; a text of 4n + 1 characters or with a
\* character outside the alphabet throws
atob(s) ==
  LET stripped == SelectSeq(s, LAMBDA c : c \notin {" ", "\t", "\n", "\f", "\r"})
      n == Len(stripped)
      d == IF n % 4 = 0 /\ n > 0 /\ stripped[n] = "="
           THEN (IF stripped[n - 1] = "=" THEN SubSeq(stripped, 1, n - 2)
                 ELSE SubSeq(stripped, 1, n - 1))
           ELSE stripped
  IN  IF Len(d) % 4 = 1 \/ \E k \in 1..Len(d) : d[k] \notin DOMAIN Base64Values
      THEN Undefined
      ELSE Some(Base64Bytes(d))

\* the character of a code point
CodeChar(cp) ==
  IF cp \in 32..126 THEN Ascii[cp - 31]
  ELSE IF cp = 10 THEN "\n"
  ELSE IF cp = 9 THEN "\t"
  ELSE IF \E h \in 1..Len(HangulSyllables) : HangulSyllables[h].code = cp
  THEN HangulSyllables[CHOOSE h \in 1..Len(HangulSyllables) :
                         HangulSyllables[h].code = cp].char
  ELSE "U+" \o ToString(cp)

\* the bytes a UTF-8 sequence takes that starts with byte b; 0 when no
\* sequence starts with it
Utf8Length(b) ==
  IF b < 128 THEN 1
  ELSE IF b \in 192..223 THEN 2
  ELSE IF b \in 224..239 THEN 3
  ELSE IF b \in 240..247 THEN 4
  ELSE 0

\* byte k is not the first of a sequence
Continues(bin, k) == bin[k] \in 128..191

\* the code point of the sequence of n bytes that starts at byte i
Utf8CodePoint(bin, i, n) ==
  IF n = 1 THEN bin[i]
  ELSE IF n = 2 THEN (bin[i] - 192) * 64 + (bin[i + 1] - 128)
  ELSE IF n = 3
  THEN (bin[i] - 224) * 4096 + (bin[i + 1] - 128) * 64 + (bin[i + 2] - 128)
  ELSE (bin[i] - 240) * 262144 + (bin[i + 1] - 128) * 4096
         + (bin[i + 2] - 128) * 64 + (bin[i + 3] - 128)

\* the bytes from i on start with the encoding of one code point
Utf8SequenceAt(bin, i) ==
  LET n == Utf8Length(bin[i])
      cp == Utf8CodePoint(bin, i, n)
  IN  /\ n > 0
      /\ i + n - 1 <= Len(bin)
      /\ \A k \in (i + 1)..(i + n - 1) : Continues(bin, k)
      /\ \/ n = 1
         \/ n = 2 /\ cp >= 128
         \/ n = 3 /\ cp >= 2048 /\ cp \notin 55296..57343
         \/ n = 4 /\ cp \in 65536..1114111

\* decodeURIComponent(escape(bin)): escape writes every byte of 128 and
\* more, and the others it does not keep, as %XX; decodeURIComponent reads
\* the %XX as UTF-8 and throws at a sequence that is not the encoding of a
\* code point.  Sequences start at the bytes that continue none, and each
\* must end where the next one starts.
Utf8Decode(bin) ==
  LET starts == SelectSeq([k \in 1..Len(bin) |-> k], LAMBDA k : ~Continues(bin, k))
      wellFormed ==
        /\ bin # <<>> => ~Continues(bin, 1)
        /\ \A s \in 1..Len(starts) :
             /\ Utf8SequenceAt(bin, starts[s])
             /\ starts[s] + Utf8Length(bin[starts[s]])
                  = (IF s < Len(starts) THEN starts[s + 1] ELSE Len(bin) + 1)
  IN  IF wellFormed
      THEN Some([s \in 1..Len(starts) |->
                   CodeChar(Utf8CodePoint(bin, starts[s], Utf8Length(bin[starts[s]])))])
      ELSE Undefined

\* a variant that leaves - and _ as they are
base64UrlDecode_NoReplace(b64url) ==
  LET bin == atob(b64url \o Padding(b64url))
  IN  IF bin = Undefined THEN Undefined ELSE Utf8Decode(bin[1])

\* lines 23-28: the text, or Undefined when atob or decodeURIComponent throws
base64UrlDecode(b64url) ==
  LET b64 == ToBase64(b64url)
      bin == atob(b64 \o Padding(b64))
  IN  IF bin = Undefined THEN Undefined ELSE Utf8Decode(bin[1])

\* JSON.parse(txt): the value, or Undefined when it throws
JsonParse(txt) ==
  LET r == ParseValue(txt, 1)
  IN  IF r.ok /\ SpaceRunEnd(txt, r.next) > Len(txt) THEN Some(r.val) ELSE Undefined

\* lines 65-67, for the value obj that JSON.parse returned
PayloadOf(obj) ==
  LET products == <<"p", "r", "o", "d", "u", "c", "t", "s">>
      data == IF Truthy(Get(Get(obj, <<"d", "a", "t", "a">>), products))
              THEN Get(obj, <<"d", "a", "t", "a">>)
              ELSE obj
  IN  IF ~Truthy(data) \/ Get(data, products).type # "array" THEN JsonNull ELSE data

\* lines 59-72: the value of decoded for the data parameter raw; a link
\* without the parameter is the empty raw (line 61 takes both the same way)
SharePageDecoded(raw) ==
  LET txt == base64UrlDecode(raw)
      obj == JsonParse(txt[1])
  IN  IF raw = <<>> THEN JsonNull
      ELSE IF txt = Undefined THEN JsonNull
      ELSE IF obj = Undefined THEN JsonNull
      ELSE PayloadOf(obj[1])

\* what a damaged character of a link is replaced with
DamageChars == {"!", "A"}

\* a link is opened; n = 0 is a link without the data parameter
OpenLink(n) ==
  /\ spData = Undefined
  /\ spData' = Some([raw |-> IF n = 0 THEN <<>> ELSE ShareLinks[n].raw,
                     link |-> n, damaged |-> FALSE, cut |-> 0])
  /\ UNCHANGED <<decoded, extractVars, callVars, viewVars, chatVars, productsVars>>

\* one character of the link was changed on its way
DamageLink(i, c) ==
  /\ spData # Undefined
  /\ decoded = Undefined
  /\ ~spData[1].damaged
  /\ spData[1].cut = 0
  /\ i \in 1..Len(spData[1].raw)
  /\ spData[1].raw[i] # c
  /\ spData' = Some([spData[1] EXCEPT !.raw[i] = c, !.damaged = TRUE])
  /\ UNCHANGED <<decoded, extractVars, callVars, viewVars, chatVars, productsVars>>

\* the link lost its last character
CutLink ==
  /\ spData # Undefined
  /\ decoded = Undefined
  /\ spData[1].cut < MaxCut
  /\ spData[1].raw # <<>>
  /\ spData' = Some([spData[1] EXCEPT !.raw = SubSeq(@, 1, Len(@) - 1), !.cut = @ + 1])
  /\ UNCHANGED <<decoded, extractVars, callVars, viewVars, chatVars, productsVars>>

\* lines 59-72: the page computes decoded
DecodeLink ==
  /\ spData # Undefined
  /\ decoded = Undefined
  /\ decoded' = Some(SharePageDecoded(spData[1].raw))
  /\ UNCHANGED <<spData, extractVars, callVars, viewVars, chatVars, productsVars>>

\* the page is left
LeavePage ==
  /\ decoded # Undefined
  /\ spData' = Undefined
  /\ decoded' = Undefined
  /\ UNCHANGED <<extractVars, callVars, viewVars, chatVars, productsVars>>

NextShare ==
  \/ \E n \in 0..Len(ShareLinks) : OpenLink(n)
  \/ \E i \in 1..100, c \in DamageChars : DamageLink(i, c)
  \/ CutLink
  \/ DecodeLink
  \/ LeavePage

SpecShare == Init /\ [][NextShare]_vars

---------------------------------------------------------------------------

(* The two parsers on their own: a text is written as a number, a gap of   *)
(* up to MaxGap characters and a unit, and both parsers read it.  Here said *)
(* keeps what was written and out[1] what the parsers answered.             *)

\* the characters between a number and its unit
MaxGap == 2

\* the numbers written, with the value n / d read by hand and the digits
\* that stand right before the unit
NumberTexts ==
  <<\* 5
    [text |-> <<"5">>, n |-> 5, d |-> 1, lastDigits |-> 5],
    \* 1.5
    [text |-> <<"1", ".", "5">>, n |-> 15, d |-> 10, lastDigits |-> 5],
    \* 12
    [text |-> <<"1", "2">>, n |-> 12, d |-> 1, lastDigits |-> 12],
    \* 1,0 (a separator; with more digits 억 leaves the integers of the model)
    [text |-> <<"1", ",", "0">>, n |-> 10, d |-> 1, lastDigits |-> 0]>>

\* the units written, with the parser each belongs to and its multiplier
UnitTexts ==
  <<\* 억
    [text |-> <<"Eog">>, kind |-> "money", mult |-> 100000000],
    \* 천만원
    [text |-> <<"Cheon", "Man", "Won">>, kind |-> "money", mult |-> 10000000],
    \* 백만원
    [text |-> <<"Baeg", "Man", "Won">>, kind |-> "money", mult |-> 1000000],
    \* 만원
    [text |-> <<"Man", "Won">>, kind |-> "money", mult |-> 10000],
    \* 만
    [text |-> <<"Man">>, kind |-> "money", mult |-> 10000],
    \* 원
    [text |-> <<"Won">>, kind |-> "money", mult |-> 1],
    \* 개월
    [text |-> <<"Gae", "Wol">>, kind |-> "months", mult |-> 1],
    \* 달
    [text |-> <<"Dal">>, kind |-> "months", mult |-> 1],
    \* month
    [text |-> <<"m", "o", "n", "t", "h">>, kind |-> "months", mult |-> 1],
    \* Months
    [text |-> <<"M", "o", "n", "t", "h", "s">>, kind |-> "months", mult |-> 1]>>

\* the characters of a gap: a space, a tab, a line break, a hyphen, 약
GapChars == <<" ", "\t", "\n", "-", "Yag">>

\* a number starts the text
WriteNumber(n) ==
  /\ out = Undefined
  /\ said = <<>>
  /\ user_message' = NumberTexts[n].text
  /\ said' = <<[kind |-> "number", n |-> n]>>
  /\ UNCHANGED <<product_type, out, callVars, viewVars, chatVars, shareVars, productsVars>>

\* a character is put after the number
WriteGap(g) ==
  /\ out = Undefined
  /\ said # <<>>
  /\ said[Len(said)].kind # "unit"
  /\ Len(said) <= MaxGap
  /\ user_message' = Append(user_message, GapChars[g])
  /\ said' = Append(said, [kind |-> "gap", n |-> g])
  /\ UNCHANGED <<product_type, out, callVars, viewVars, chatVars, shareVars, productsVars>>

\* a unit ends the text
WriteUnit(u) ==
  /\ out = Undefined
  /\ said # <<>>
  /\ said[Len(said)].kind # "unit"
  /\ user_message' = user_message \o UnitTexts[u].text
  /\ said' = Append(said, [kind |-> "unit", n |-> u])
  /\ UNCHANGED <<product_type, out, callVars, viewVars, chatVars, shareVars, productsVars>>

\* lines 90 and 94: both parsers read the text
Parse ==
  /\ out = Undefined
  /\ said # <<>>
  /\ out' = Some([money |-> parseKoreanMoney(user_message),
                  months |-> parseMonths(user_message)])
  /\ UNCHANGED <<product_type, user_message, said, callVars, viewVars, chatVars, shareVars, productsVars>>

\* the next text
NextText ==
  /\ out # Undefined
  /\ user_message' = <<>>
  /\ said' = <<>>
  /\ out' = Undefined
  /\ UNCHANGED <<product_type, callVars, viewVars, chatVars, shareVars, productsVars>>

NextParse ==
  \/ \E n \in 1..Len(NumberTexts) : WriteNumber(n)
  \/ \E g \in 1..Len(GapChars) : WriteGap(g)
  \/ \E u \in 1..Len(UnitTexts) : WriteUnit(u)
  \/ Parse
  \/ NextText

SpecParse == Init /\ [][NextParse]_vars

---------------------------------------------------------------------------
(* The product catalog: what the user does and what the calls of            *)
(* fetchProducts do when their requests settle.                             *)

fetchProducts ==
  /\ Len(inFlight) < MaxInFlight
  /\ loading' = TRUE
  /\ errorText' = <<>>
  /\ inFlight' = Append([k \in 1..Len(inFlight) |-> [inFlight[k] EXCEPT !.latest = FALSE]],
                        CallOf(type', sort', q))
  /\ UNCHANGED <<q, items>>

\* line 365, a tab is pressed; lines 338-341, the effect calls fetchProducts
SetType(t) ==
  /\ t # type
  /\ type' = t
  /\ UNCHANGED sort
  /\ fetchProducts
  /\ UNCHANGED <<extractVars, callVars, viewVars, chatVars, shareVars>>

\* line 412, a sort order is picked; lines 338-341
SetSort(s) ==
  /\ s # sort
  /\ sort' = s
  /\ UNCHANGED type
  /\ fetchProducts
  /\ UNCHANGED <<extractVars, callVars, viewVars, chatVars, shareVars>>

\* line 392, the query is typed
SetQ(n) ==
  /\ q' = Queries[n]
  /\ UNCHANGED <<type, sort, items, loading, errorText, inFlight>>
  /\ UNCHANGED <<extractVars, callVars, viewVars, chatVars, shareVars>>

\* lines 393 and 399, Enter in the query or the search button
Search ==
  /\ UNCHANGED <<type, sort>>
  /\ fetchProducts
  /\ UNCHANGED <<extractVars, callVars, viewVars, chatVars, shareVars>>

\* the calls under way without call i
InFlightWithout(i) ==
  [k \in 1..(Len(inFlight) - 1) |-> IF k < i THEN inFlight[k] ELSE inFlight[k + 1]]

\* line 325: the values of the requests that were fulfilled, in order
RECURSIVE Merged(_)
Merged(results) ==
  IF results = <<>> THEN <<>>
  ELSE (IF Head(results)[1].status = "fulfilled" THEN Head(results)[1].value ELSE <<>>)
       \o Merged(Tail(results))

\* lines 300-315 and 320-335: request k of call i settles; when it is the
\* last of the call, fetchProducts goes on after its await: it sets the items,
\* or the catch clause empties them and sets the error text, and finally
\* clears the loading flag
RequestSettles(i, k, ok) ==
  /\ inFlight[i].got[k] = Undefined
  /\ LET call == inFlight[i]
         got == [call.got EXCEPT ![k] = Some(FetchOutcome(call, k, ok))]
     IN  IF \E j \in 1..Len(got) : got[j] = Undefined
         THEN /\ inFlight' = [inFlight EXCEPT ![i].got = got]
              /\ UNCHANGED <<items, loading, errorText>>
         ELSE /\ inFlight' = InFlightWithout(i)
              /\ loading' = FALSE
              /\ IF call.type = AllTypes
                 THEN items' = Merged(got) /\ UNCHANGED errorText
                 ELSE IF got[1][1].status = "fulfilled"
                 THEN items' = got[1][1].value /\ UNCHANGED errorText
                 ELSE items' = <<>> /\ errorText' = got[1][1].message
  /\ UNCHANGED <<type, sort, q>>
  /\ UNCHANGED <<extractVars, callVars, viewVars, chatVars, shareVars>>

NextProducts ==
  \/ \E t \in 1..Len(types) : SetType(types[t])
  \/ \E s \in 1..Len(SortOptions) : SetSort(SortOptions[s])
  \/ \E n \in 1..Len(Queries) : SetQ(n)
  \/ Search
  \/ \E i \in 1..Len(inFlight) : \E k \in 1..Len(inFlight[i].got) :
       \E ok \in BOOLEAN : RequestSettles(i, k, ok)

SpecProducts == Init /\ [][NextProducts]_vars

---------------------------------------------------------------------------

(* What is checked of the extractor.  The response is out[1]; the phrases   *)
(* are read by hand below, independently of the parsers.                    *)

EligibilityFields ==
  {"salary_transfer", "auto_transfer", "card_spend", "primary_bank", "non_face", "youth"}

TriState == {"yes", "no", "unknown"}

AmountSlots == {"monthly_amount", "lump_sum", "income_monthly", "desired_amount"}

Answered == out # Undefined

\* whether the literal lit occurs in text
Contains(text, lit) == \E i \in 1..Len(text) : StartsWithAt(text, i, lit)

\* the amount each phrase states: the decimal number n / d and its unit
AmountReading ==
  (1 :> [n |-> 50, d |-> 1, unit |-> "ManWon"]) @@
  (3 :> [n |-> 300, d |-> 1, unit |-> "ManWon"]) @@
  (4 :> [n |-> 5, d |-> 1, unit |-> "CheonManWon"]) @@
  (5 :> [n |-> 15, d |-> 10, unit |-> "Eog"]) @@
  (10 :> [n |-> 2, d |-> 1, unit |-> "BaegManWon"]) @@
  (11 :> [n |-> 10005, d |-> 10, unit |-> "Won"]) @@
  (12 :> [n |-> 50, d |-> 1, unit |-> "Man"]) @@
  (13 :> [n |-> 0, d |-> 1, unit |-> "Won"])

\* the duration each phrase states with one of the units 개월, 달, month(s)
DurationReading == (6 :> 12) @@ (7 :> 6) @@ (8 :> 3) @@ (9 :> 0)

\* the positions in the utterance of the phrases that state an amount
AmountPositions == {k \in 1..Len(said) : said[k] \in DOMAIN AmountReading}

DurationPositions == {k \in 1..Len(said) : said[k] \in DOMAIN DurationReading}

\* the phrase that states the leftmost amount of the utterance
FirstAmountPhrase ==
  said[CHOOSE k \in AmountPositions : \A h \in AmountPositions : k <= h]

\* the amount slots the response sets
AmountSlotsSet == DOMAIN out[1].slots \cap AmountSlots

(* C1: every response holds all six eligibility fields, each yes, no or     *)
(* unknown; none is omitted and none has another value.                     *)
C1_EligibilityComplete ==
  Answered =>
    /\ DOMAIN out[1].eligibility = EligibilityFields
    /\ \A f \in EligibilityFields : out[1].eligibility[f] \in TriState

\* a response that holds a yes, a no and an unknown
C1_Witness ==
  /\ Answered
  /\ out[1].eligibility.non_face = "yes"
  /\ out[1].eligibility.card_spend = "no"
  /\ out[1].eligibility.youth = "unknown"

(* C2: every request is answered by a record of slots, eligibility and      *)
(* meta, and the answer to the empty utterance is the baseline: no slot,    *)
(* six unknown, user_uncertain false.                                       *)
C2_TotalAndBaseline ==
  Answered =>
    /\ DOMAIN out[1] = {"slots", "eligibility", "meta"}
    /\ out[1].meta.user_uncertain \in BOOLEAN
    /\ user_message = <<>> =>
         /\ DOMAIN out[1].slots = {}
         /\ \A f \in EligibilityFields : out[1].eligibility[f] = "unknown"
         /\ DOMAIN out[1].eligibility = EligibilityFields
         /\ out[1].meta.user_uncertain = FALSE

\* the empty utterance was answered, for a product type of the loan family
C2_Witness ==
  /\ Answered
  /\ user_message = <<>>
  /\ product_type = <<"Dae", "Chul">>
  /\ out[1].slots = <<>>

\* the slot the routing rules of the claim give, from substrings alone
C3_ExpectedSlot ==
  IF Contains(product_type, <<"Jeog", "Geum">>)
  THEN (IF \/ Contains(user_message, <<"Mae", "Dal">>)
           \/ Contains(user_message, <<"Wol">>)
           \/ Contains(user_message, <<"Han", "Dal">>)
           \/ Contains(user_message, <<"Mae", "Wol">>)
        THEN "monthly_amount" ELSE "lump_sum")
  ELSE IF Contains(product_type, <<"Ye", "Geum">>) THEN "lump_sum"
  ELSE IF Contains(product_type, <<"Dae", "Chul">>)
  THEN (IF \/ Contains(user_message, <<"So", "Deug">>)
           \/ Contains(user_message, <<"Wol", "Geub">>)
           \/ Contains(user_message, <<"Yeon", "Bong">>)
        THEN "income_monthly" ELSE "desired_amount")
  ELSE "lump_sum"

(* C3: when the utterance states an amount, the slot that receives it is    *)
(* the one the first applicable rule names: 적금 (monthly_amount with a     *)
(* periodicity word, else lump_sum), then 예금 (lump_sum), then 대출        *)
(* (income_monthly with an income word, else desired_amount), else          *)
(* lump_sum.                                                                *)
C3_AmountRouting ==
  (Answered /\ AmountPositions # {}) => AmountSlotsSet = {C3_ExpectedSlot}

\* a product type of two families, 예금적금, routed by the 적금 rule
C3_Witness ==
  /\ Answered
  /\ product_type = <<"Ye", "Geum", "Jeog", "Geum">>
  /\ said = <<3>>
  /\ AmountSlotsSet = {"monthly_amount"}

(* C4: a response sets exactly one of the four amount slots when the        *)
(* amount parser finds a value in the utterance, and none when it finds no  *)
(* value.                                                                   *)
C4_OneAmountSlot ==
  Answered =>
    IF parseKoreanMoney(Trim(user_message)) # Undefined
    THEN Cardinality(AmountSlotsSet) = 1
    ELSE AmountSlotsSet = {}

\* the amount 0원 is found and sets its slot to 0, which differs from absent
C4_Witness ==
  /\ Answered
  /\ said = <<13>>
  /\ AmountSlotsSet = {"lump_sum"}
  /\ out[1].slots["lump_sum"] = 0

\* the multipliers the claim gives
C5_Multiplier(unit) ==
  CASE unit = "Eog" -> 100000000
    [] unit = "CheonManWon" -> 10000000
    [] unit = "BaegManWon" -> 1000000
    [] unit = "ManWon" -> 10000
    [] unit = "Man" -> 10000
    [] unit = "Won" -> 1

\* round(n / d * m), the integer nearest to the product
C5_Round(n, d, m) ==
  IF m % d = 0 THEN n * (m \div d) ELSE (2 * n * m + d) \div (2 * d)

(* C5: the amount a response holds is round(n * m(u)) for the number n and  *)
(* unit u of the leftmost amount of the utterance; 1.5억 for 예금 gives      *)
(* lump_sum = 150000000.                                                    *)
C5_AmountValue ==
  (Answered /\ AmountPositions # {}) =>
    LET r == AmountReading[FirstAmountPhrase]
    IN  /\ \A slot \in AmountSlotsSet :
             out[1].slots[slot] = C5_Round(r.n, r.d, C5_Multiplier(r.unit))
        /\ AmountSlotsSet # {}
        /\ (said = <<5>> /\ product_type = <<"Ye", "Geum">>) =>
             (AmountSlotsSet = {"lump_sum"} /\ out[1].slots["lump_sum"] = 150000000)

\* extract(예금, [], "1.5억 정도 넣으려고요")
C5_Witness ==
  /\ Answered
  /\ said = <<5>>
  /\ product_type = <<"Ye", "Geum">>
  /\ out[1].slots = [lump_sum |-> 150000000]

\* the amount the phrase w gives when it is the whole utterance
AmountOfPhrase(w) == parseKoreanMoney(Phrases[w])

(* C6: of several amounts in one utterance only the leftmost is used: one   *)
(* slot is set, to the value the leftmost amount has on its own, whatever   *)
(* amounts follow it; 월 소득 300만원이고 5천만원 필요해요 for 대출 gives     *)
(* income_monthly = 3000000 and no desired_amount.                          *)
C6_LeftmostAmount ==
  (Answered /\ Cardinality(AmountPositions) >= 2) =>
    /\ Cardinality(AmountSlotsSet) = 1
    /\ \A slot \in AmountSlotsSet :
         Some(out[1].slots[slot]) = AmountOfPhrase(FirstAmountPhrase)
    /\ (said = <<3, 4>> /\ product_type = <<"Dae", "Chul">>) =>
         out[1].slots = [income_monthly |-> 3000000]

\* extract(대출, [], "월 소득 300만원이고 5천만원 필요해요")
C6_Witness ==
  /\ Answered
  /\ said = <<3, 4>>
  /\ product_type = <<"Dae", "Chul">>
  /\ out[1].slots = [income_monthly |-> 3000000]

\* the request extract(적금, [], "매달 50만원씩 넣을 건데 1년 정도 생각해요")
C7_Request ==
  /\ Answered
  /\ said = <<1, 2>>
  /\ product_type = <<"Jeog", "Geum">>

(* C7 as stated: the request is answered with monthly_amount = 500000 and   *)
(* term_months = 12.                                                        *)
C7_Original ==
  C7_Request =>
    /\ "monthly_amount" \in DOMAIN out[1].slots
    /\ out[1].slots["monthly_amount"] = 500000
    /\ "term_months" \in DOMAIN out[1].slots
    /\ out[1].slots["term_months"] = 12

(* C7 as amended: the request is answered with monthly_amount = 500000 and  *)
(* no term_months, 년 being no unit of the duration parser.                  *)
C7_Amended ==
  C7_Request => out[1].slots = [monthly_amount |-> 500000]

C7_Witness ==
  /\ C7_Request
  /\ "term_months" \notin DOMAIN out[1].slots

\* the patterns of each eligibility field, as the claim's "wired" reads them
C8_YesWords(f) ==
  CASE f = "salary_transfer" -> SalaryTransferYes
    [] f = "auto_transfer" -> AutoTransferYes
    [] f = "card_spend" -> CardSpendYes
    [] f = "primary_bank" -> PrimaryBankYes
    [] f = "non_face" -> NonFaceYes
    [] f = "youth" -> YouthYes

C8_NoWords(f) ==
  CASE f = "salary_transfer" -> SalaryTransferNo
    [] f = "auto_transfer" -> AutoTransferNo
    [] f = "card_spend" -> CardSpendNo
    [] f = "primary_bank" -> PrimaryBankNo
    [] f = "non_face" -> NonFaceNo
    [] f = "youth" -> YouthNo

(* C8: a field is yes exactly when its affirmative pattern matches, also    *)
(* when the negative matches too; no exactly when only the negative         *)
(* matches; unknown exactly when neither matches.                           *)
C8_AffirmativeFirst ==
  Answered =>
    \A f \in EligibilityFields :
      LET yes == RegExpTest(C8_YesWords(f), Trim(user_message))
          no == RegExpTest(C8_NoWords(f), Trim(user_message))
      IN  /\ out[1].eligibility[f] = "yes" <=> yes
          /\ out[1].eligibility[f] = "no" <=> (no /\ ~yes)
          /\ out[1].eligibility[f] = "unknown" <=> (~no /\ ~yes)

\* 비대면 matches the affirmative 비대면 and the negative 대면, and is yes;
\* the same utterance gives a no to another field
C8_Witness ==
  /\ Answered
  /\ said = <<14, 19>>
  /\ RegExpTest(NonFaceYes, user_message)
  /\ RegExpTest(NonFaceNo, user_message)
  /\ out[1].eligibility.non_face = "yes"
  /\ out[1].eligibility.youth = "no"

\* an utterance none of whose phrases states an amount or a duration
C9_NoTokens == AmountPositions = {} /\ DurationPositions = {}

(* C9 as stated: an utterance without amount and duration tokens is         *)
(* answered with no numeric slot and six unknown.                           *)
C9_Original ==
  (Answered /\ C9_NoTokens) =>
    /\ DOMAIN out[1].slots = {}
    /\ \A f \in EligibilityFields : out[1].eligibility[f] = "unknown"

(* C9 as amended: an utterance without amount and duration tokens is        *)
(* answered with no numeric slot; its eligibility fields are all unknown    *)
(* exactly when it matches no eligibility pattern either.                   *)
C9_Amended ==
  (Answered /\ C9_NoTokens) =>
    /\ DOMAIN out[1].slots = {}
    /\ (\A f \in EligibilityFields : out[1].eligibility[f] = "unknown")
         <=> (\A f \in EligibilityFields :
                /\ ~RegExpTest(C8_YesWords(f), user_message)
                /\ ~RegExpTest(C8_NoWords(f), user_message))

\* 1년 정도 생각해요 alone: no token the parsers know, no keyword, the baseline
C9_Witness ==
  /\ Answered
  /\ said = <<2>>
  /\ out[1].slots = <<>>
  /\ \A f \in EligibilityFields : out[1].eligibility[f] = "unknown"


\* what a logged call was asked, the earlier questions left out
C10_Arguments(c) ==
  IF c.op = "extract" THEN <<c.op, c.product_type, c.user_message>>
  ELSE IF c.op = "segment" THEN <<c.op, c.content>>
  ELSE <<c.op, c.value>>

\* C10: in any sequence of extract, segment and classify calls, two calls of
\* the same operation with the same arguments (for extract: the same
\* product_type and user_message, whatever the last_questions) have the
\* same result, and no call leaves a match position behind in the fence
\* expression.
C10_FunctionOfArguments ==
  /\ \A i, j \in 1..Len(calls) :
       C10_Arguments(calls[i]) = C10_Arguments(calls[j])
         => calls[i].result = calls[j].result
  /\ regexLastIndex = 1

\* 대출 and 5천만원 필요해요 extracted twice, once after the question about
\* the income and once after no question, around a desired_amount of 50000000
C10_Witness ==
  /\ Len(calls) = 2
  /\ calls[1].op = "extract" /\ calls[2].op = "extract"
  /\ calls[1].product_type = <<"Dae", "Chul">>
  /\ calls[2].product_type = calls[1].product_type
  /\ calls[1].user_message = Phrases[4]
  /\ calls[2].user_message = calls[1].user_message
  /\ calls[1].last_questions = <<IncomeQuestion>>
  /\ calls[2].last_questions = <<>>
  /\ "desired_amount" \in DOMAIN calls[1].result.slots
  /\ calls[1].result.slots.desired_amount = 50000000

---------------------------------------------------------------------------
(* What is checked of the chat view.  The blocks shown are bubbleBlocks[1]; *)
(* what a message is made of is read from parts, independently of the       *)
(* segmenter and the JSON parser.                                           *)

Rendered == bubbleBlocks # Undefined

\* the message is made of pieces only
OfPieces == \A i \in 1..Len(parts) : parts[i].kind = "piece"

\* the positions of the message at which the piece is one of ns
PiecePositions(ns) == {i \in 1..Len(parts) : parts[i].kind = "piece" /\ parts[i].n \in ns}

\* the pieces that are whitespace, and those that are an object by themselves
SpacePieces == {2}

BarePayloadPieces == {6, 7}

\* the payload that the whole trimmed message is, when it is one; otherwise
\* the empty text: one object or array, with at most whitespace around it
WholePayload ==
  IF parts = <<>> THEN <<>>
  ELSE IF parts[1].kind = "payload"
  THEN (IF parts[1].fenced THEN <<>>
        ELSE PayloadText(parts[1].products, parts[1].slots,
                         parts[1].eligibility, parts[1].meta))
  ELSE IF parts[1].kind = "other"
  THEN (IF ~parts[1].fenced /\ parts[1].n \in {1, 2} THEN OtherPayloads[parts[1].n] ELSE <<>>)
  ELSE IF parts[1].kind = "record" THEN bubbleContent
  ELSE IF /\ Cardinality(PiecePositions(BarePayloadPieces)) = 1
          /\ PiecePositions(SpacePieces) \cup PiecePositions(BarePayloadPieces)
               = 1..Len(parts)
  THEN Pieces[parts[CHOOSE i \in PiecePositions(BarePayloadPieces) : TRUE].n]
  ELSE <<>>

(* C11: a message that is, once trimmed, one payload (an object or an       *)
(* array) is shown as exactly one block, of kind json, whose value is the   *)
(* trimmed message, also when a string of the payload holds fence markers.  *)
C11_WholePayloadOneBlock ==
  (Rendered /\ WholePayload # <<>>) =>
    /\ Len(bubbleBlocks[1]) = 1
    /\ bubbleBlocks[1][1].kind = "json"
    /\ bubbleBlocks[1][1].value = WholePayload

\* the payload with fence markers in a string, between whitespace
C11_Witness ==
  /\ Rendered
  /\ Len(parts) = 3
  /\ OfPieces
  /\ parts[1].n = 2 /\ parts[2].n = 7 /\ parts[3].n = 2
  /\ FenceExec(bubbleContent, 1).found
  /\ Len(bubbleBlocks[1]) = 1
  /\ bubbleBlocks[1][1].kind = "json"
  /\ bubbleBlocks[1][1].value = Pieces[7]

\* the text without its whitespace
StripSpace(s) == SelectSeq(s, LAMBDA c : ~IsSpace(c))

\* the values of the blocks in order, the fence markers put back around each
\* json block
RECURSIVE Reassemble(_)
Reassemble(bs) ==
  IF bs = <<>> THEN <<>>
  ELSE (IF Head(bs).kind = "json"
        THEN FenceOpen \o Head(bs).value \o FenceClose
        ELSE Head(bs).value)
       \o Reassemble(Tail(bs))

\* a message composed of text (pieces 1, 6, 7), whitespace (2) and well-formed
\* fenced spans (3, 4, 5)
C12_Composed == OfPieces /\ \A i \in 1..Len(parts) : parts[i].n \in 1..7

Blank(s) == \A k \in 1..Len(s) : IsSpace(s[k])

(* C13 as stated: no block of any message has an empty or whitespace-only   *)
(* value.                                                                   *)
C13_Original ==
  Rendered => \A k \in 1..Len(bubbleBlocks[1]) : ~Blank(bubbleBlocks[1][k].value)

(* C13 as amended: a text block is blank only when it is the single block   *)
(* of a message that is itself empty or whitespace-only, and then it holds  *)
(* the whole message; a json block is blank only for a fence whose inside   *)
(* is empty or whitespace-only.  Blank text before, between and after       *)
(* fences gets no block.                                                    *)
C13_Amended ==
  Rendered =>
    \A k \in 1..Len(bubbleBlocks[1]) :
      Blank(bubbleBlocks[1][k].value) =>
        IF bubbleBlocks[1][k].kind = "text"
        THEN /\ Len(bubbleBlocks[1]) = 1
             /\ bubbleBlocks[1][k].value = bubbleContent
             /\ \A i \in 1..Len(parts) : parts[i].kind = "piece" /\ parts[i].n \in SpacePieces
        ELSE PiecePositions({5}) # {}

\* whitespace, a fence with only whitespace inside, whitespace: one json
\* block with an empty value and no text block
C13_Witness ==
  /\ Rendered
  /\ Len(parts) = 3
  /\ OfPieces
  /\ parts[1].n = 2 /\ parts[2].n = 5 /\ parts[3].n = 2
  /\ bubbleBlocks[1] = <<[kind |-> "json", value |-> <<>>,
                          shown |-> [as |-> "Unclassified", raw |-> <<>>]]>>

\* the message is one payload written from the option tables, fenced or bare
OfPayload == parts # <<>> /\ parts[1].kind = "payload"

\* the message is one payload of any kind, or a response of the extractor
OfOneValue == parts # <<>> /\ parts[1].kind \in {"payload", "other", "record"}

\* the options that write products as an array, slots and eligibility as a
\* member of any value, and meta with a boolean user_uncertain
ProductsArray == {2, 3}

SlotsPresent == {2, 3, 4}

EligibilityPresent == {2, 3}

MetaBoolean == {2}

\* the json blocks shown
JsonBlocks == {k \in 1..Len(bubbleBlocks[1]) : bubbleBlocks[1][k].kind = "json"}

(* C14: a payload is shown as a RecommendationBundle exactly when it is an  *)
(* object whose products member is an array, empty or not, whatever its     *)
(* slots, eligibility and meta members are.                                 *)
C14_BundleFirst ==
  (Rendered /\ OfOneValue) =>
    /\ OfPayload => JsonBlocks = {1}
    /\ \A k \in JsonBlocks :
         bubbleBlocks[1][k].shown.as = "RecommendationBundle"
           <=> (OfPayload /\ parts[1].products \in ProductsArray)

\* an empty products array next to a complete slot state
C14_Witness ==
  /\ Rendered
  /\ OfPayload
  /\ parts[1].products = 2 /\ parts[1].slots = 2
  /\ parts[1].eligibility = 2 /\ parts[1].meta = 2
  /\ parts[1].fenced
  /\ bubbleBlocks[1][1].shown.as = "RecommendationBundle"

\* the options that write slots and eligibility with a value that counts as
\* true in a condition: an object, not null and not the empty string
SlotsTruthy == {2, 3}

EligibilityTruthy == {2}

\* a payload whose products member is no array
C15_NoBundle == OfPayload /\ parts[1].products \notin ProductsArray

(* C15 as stated: a payload without an array products is shown as a         *)
(* SlotState exactly when it has the members slots and eligibility,         *)
(* whatever their values, and a boolean meta.user_uncertain; otherwise it   *)
(* is Unclassified.                                                         *)
C15_Original ==
  (Rendered /\ C15_NoBundle) =>
    bubbleBlocks[1][1].shown.as =
      IF /\ parts[1].slots \in SlotsPresent
         /\ parts[1].eligibility \in EligibilityPresent
         /\ parts[1].meta \in MetaBoolean
      THEN "SlotState" ELSE "Unclassified"

(* C15 as amended: a payload without an array products is shown as a        *)
(* SlotState exactly when its slots and eligibility members have values     *)
(* that count as true (not null, false, 0 or the empty string) and          *)
(* meta.user_uncertain is a boolean; every other payload is Unclassified    *)
(* and shown as its raw text.                                               *)
C15_Amended ==
  (Rendered /\ OfOneValue) =>
    \A k \in JsonBlocks :
      /\ C15_NoBundle =>
           bubbleBlocks[1][k].shown.as =
             IF /\ parts[1].slots \in SlotsTruthy
                /\ parts[1].eligibility \in EligibilityTruthy
                /\ parts[1].meta \in MetaBoolean
             THEN "SlotState" ELSE "Unclassified"
      /\ parts[1].kind = "other" => bubbleBlocks[1][k].shown.as = "Unclassified"
      /\ bubbleBlocks[1][k].shown.as = "Unclassified" =>
           bubbleBlocks[1][k].shown.raw = bubbleBlocks[1][k].value

\* slots is null next to an eligibility object and a boolean user_uncertain:
\* Unclassified
C15_Witness ==
  /\ Rendered
  /\ OfPayload
  /\ parts[1].products = 1 /\ parts[1].slots = 4
  /\ parts[1].eligibility = 2 /\ parts[1].meta = 2
  /\ bubbleBlocks[1][1].shown.as = "Unclassified"
  /\ bubbleBlocks[1][1].shown.raw = bubbleBlocks[1][1].value

\* the message is one fence around a text that JSON.parse rejects: a cut
\* object or a bare word (other payloads 6 and 7), nothing at all (piece 5),
\* a cut object (piece 8)
C16_Undecodable ==
  /\ parts # <<>>
  /\ \/ parts[1].kind = "other" /\ parts[1].n \in {6, 7} /\ parts[1].fenced
     \/ Len(parts) = 1 /\ parts[1].kind = "piece" /\ parts[1].n \in {5, 8}

(* C16: every json block is shown as exactly one of RecommendationBundle,   *)
(* SlotState and Unclassified, and a block whose text does not decode is    *)
(* Unclassified and carries that text.                                      *)
C16_ClassificationTotal ==
  Rendered =>
    /\ \A k \in JsonBlocks :
         bubbleBlocks[1][k].shown.as \in {"RecommendationBundle", "SlotState", "Unclassified"}
    /\ C16_Undecodable =>
         /\ JsonBlocks = {1}
         /\ bubbleBlocks[1][1].shown.as = "Unclassified"
         /\ bubbleBlocks[1][1].shown.raw = bubbleBlocks[1][1].value

\* a fence around an object that is cut short
C16_Witness ==
  /\ Rendered
  /\ parts # <<>>
  /\ parts[1].kind = "other" /\ parts[1].n = 6 /\ parts[1].fenced
  /\ bubbleBlocks[1][1].shown = [as |-> "Unclassified", raw |-> OtherPayloads[6]]

\* the message is the response of the extractor to a request
OfRecord == parts # <<>> /\ parts[1].kind = "record"

(* C17: the response of the extractor, sent as a whole assistant message,   *)
(* is shown as a single json block that is a SlotState.                     *)
C17_RecordIsSlotState ==
  (Rendered /\ OfRecord) =>
    /\ Len(bubbleBlocks[1]) = 1
    /\ bubbleBlocks[1][1].kind = "json"
    /\ bubbleBlocks[1][1].value = bubbleContent
    /\ bubbleBlocks[1][1].shown.as = "SlotState"

\* the response to the empty utterance, whose slots object has no member
C17_Witness ==
  /\ Rendered
  /\ OfRecord
  /\ parts[1].user_message = <<>>
  /\ parts[1].product_type = <<"Jeog", "Geum">>
  /\ bubbleBlocks[1][1].shown.as = "SlotState"
  /\ Get(bubbleBlocks[1][1].shown.data, Chars["slots"]) = [type |-> "object", members |-> <<>>]

---------------------------------------------------------------------------
(* What is checked of the chat page.                                        *)

\* res.ok: the status is in the range 200-299
ResOk(status) == status \in 200..299

\* the call under way ends in this step after a failure of the exchange:
\* fetch rejected, the body was no JSON, or the response was an error
FailedTurnEnds ==
  /\ pending # Undefined
  /\ pending' = Undefined
  /\ \/ pending[1].at = "fetch"
     \/ ResJson(pending[1].body) = Undefined
     \/ ~ResOk(pending[1].status)

C18_Surfaced ==
  FailedTurnEnds =>
    /\ messages[Len(messages)].role = "user"
    /\ messages' = Append(messages, [role |-> "assistant", content |-> RetryPrompt])
    /\ ~isLoading'

(* C18: every failed exchange with the backend (fetch rejecting, a body     *)
(* that is no JSON, an error response) ends with exactly one assistant      *)
(* message, the retry prompt, appended after the user's message, and with   *)
(* the loading flag cleared.                                                *)
C18_FailureSurfaced == [][C18_Surfaced]_vars

---------------------------------------------------------------------------
(* What is checked of the share page.  The link opened is spData[1], the    *)
(* value of decoded is decoded[1]; JsonNull is the invalid-link state.      *)

Products == <<"p", "r", "o", "d", "u", "c", "t", "s">>

\* the link is as it was written
Untouched == spData[1].link > 0 /\ ~spData[1].damaged /\ spData[1].cut = 0

\* the products of the links 1 to 6, counted by hand
C19_ProductCount == <<1, 0, 1, 1, 0, 0>>

\* the link holds a character of neither base64 alphabet, or a number of
\* characters that no base64 text has
C19_Malformed ==
  \/ \E k \in 1..Len(spData[1].raw) : spData[1].raw[k] = "!"
  \/ Len(spData[1].raw) % 4 = 1

(* C19: whatever the data parameter is, decoded is a payload whose products *)
(* is an array or the invalid-link state.  A link as written yields the     *)
(* data of its envelope or the bare object when that holds a products       *)
(* array; a link without the parameter, malformed base64url, bytes that are *)
(* no UTF-8, text that is no JSON and a payload without a products array    *)
(* yield the invalid-link state.                                            *)
C19_DecodedOrInvalid ==
  decoded # Undefined =>
    /\ \/ decoded[1] = JsonNull
       \/ decoded[1].type = "object" /\ Get(decoded[1], Products).type = "array"
    /\ spData[1].link = 0 => decoded[1] = JsonNull
    /\ C19_Malformed => decoded[1] = JsonNull
    /\ (Untouched /\ ShareLinks[spData[1].link].of = "invalid") => decoded[1] = JsonNull
    /\ (Untouched /\ ShareLinks[spData[1].link].of # "invalid") =>
         /\ decoded[1] # JsonNull
         /\ Len(Get(decoded[1], Products).items) = C19_ProductCount[spData[1].link]
    /\ (Untouched /\ ShareLinks[spData[1].link].of = "envelope") =>
         /\ Get(decoded[1], <<"v">>) = JsUndefined
         /\ Get(decoded[1], <<"d", "a", "t", "a">>) = JsUndefined
    /\ (Untouched /\ spData[1].link = 6) =>
         Get(decoded[1], <<"d", "a", "t", "a">>) = [type |-> "object", members |-> <<>>]

\* the envelope of one product, named 적금, was opened as written
C19_Witness ==
  /\ decoded # Undefined
  /\ Untouched
  /\ spData[1].link = 1
  /\ Get(decoded[1], Products).items
       = <<[type |-> "object",
            members |-> <<[key |-> <<"n", "a", "m", "e">>,
                           value |-> [type |-> "string", chars |-> <<"Jeog", "Geum">>]]>>]>>

---------------------------------------------------------------------------
(* What is checked of the duration slot.                                    *)

(* C20: whenever parseMonths finds a value in the utterance, the response   *)
(* has slots.term_months set to that value, and term_months is absent only  *)
(* when parseMonths finds none.                                             *)
C20_TermMonthsSet ==
  Answered =>
    /\ parseMonths(user_message) # Undefined =>
         /\ "term_months" \in DOMAIN out[1].slots
         /\ out[1].slots.term_months = parseMonths(user_message)[1]
    /\ parseMonths(user_message) = Undefined => "term_months" \notin DOMAIN out[1].slots

---------------------------------------------------------------------------
(* What is checked of the two parsers on texts of a number, a gap and a     *)
(* unit.                                                                    *)

\* the text was read and ends with a unit
ParsedWithUnit == out # Undefined /\ said[Len(said)].kind = "unit"

\* the characters written between the number and the unit
GapWritten == {k \in 1..Len(said) : said[k].kind = "gap"}

\* whitespace: space, tab, line break
C21_Whitespace == {1, 2, 3}

C21_Number == NumberTexts[said[1].n]

C21_Unit == UnitTexts[said[Len(said)].n]

\* what the parser of the unit answers when it takes the number with the unit
C21_Taken ==
  /\ C21_Unit.kind = "money" =>
       /\ out[1].money = Some(C5_Round(C21_Number.n, C21_Number.d, C21_Unit.mult))
       /\ out[1].months = Undefined
  /\ C21_Unit.kind = "months" =>
       /\ out[1].months = Some(C21_Number.lastDigits)
       /\ out[1].money = Undefined

---------------------------------------------------------------------------
(* What is checked of the order of the blocks.  Each piece is read by hand  *)
(* as marks: O an opening fence, C a closing fence, T text that is not      *)
(* blank, B blank text.                                                     *)

PieceMarks ==
  <<<<"T">>, <<"B">>, <<"O", "T", "C">>, <<"O", "T", "C">>, <<"O", "B", "C">>, <<"T">>,
    <<"T", "O", "T", "C", "T">>, <<"O", "T", "C">>, <<"O", "T", "C">>, <<"O", "T">>>>

\* the marks of the message
RECURSIVE MarksOf(_)
MarksOf(ps) == IF ps = <<>> THEN <<>> ELSE PieceMarks[Head(ps).n] \o MarksOf(Tail(ps))

\* the kinds of the blocks a reader expects who goes through the marks from
\* mark i on: an opening fence starts a fence when three backticks follow
\* somewhere after it, and the first three backticks after it end the fence,
\* be they those of another opening fence, whose json then is text; passed
\* says that text which is not blank was passed since the last fence
RECURSIVE ExpectedKinds(_, _, _, _)
ExpectedKinds(marks, i, inside, passed) ==
  IF i > Len(marks) THEN (IF passed THEN <<"text">> ELSE <<>>)
  ELSE IF inside
  THEN (IF marks[i] \in {"O", "C"}
        THEN <<"json">> \o ExpectedKinds(marks, i + 1, FALSE, marks[i] = "O")
        ELSE ExpectedKinds(marks, i + 1, TRUE, FALSE))
  ELSE IF marks[i] = "O" /\ \E j \in (i + 1)..Len(marks) : marks[j] \in {"O", "C"}
  THEN (IF passed THEN <<"text">> ELSE <<>>) \o ExpectedKinds(marks, i + 1, TRUE, FALSE)
  ELSE ExpectedKinds(marks, i + 1, FALSE, passed \/ marks[i] # "B")

C22_Expected == ExpectedKinds(MarksOf(parts), 1, FALSE, FALSE)

\* the closed fences of the message
C22_ClosedFences == Cardinality({k \in 1..Len(C22_Expected) : C22_Expected[k] = "json"})

\* what stands inside the fences of the pieces that are one fence, whitespace
\* at both ends aside
FenceInside ==
  (3 :> <<"{", "\"", "p", "r", "o", "d", "u", "c", "t", "s", "\"", ":", "[", "]", "}">>) @@
  (4 :> <<"{", "\"", "s", "l", "o", "t", "s", "\"", ":", "{", "}", ",", "\"", "e", "l", "i", "g",
          "i", "b", "i", "l", "i", "t", "y", "\"", ":", "{", "}", ",", "\"", "m", "e", "t", "a",
          "\"", ":", "{", "\"", "u", "s", "e", "r", "_", "u", "n", "c", "e", "r", "t", "a", "i",
          "n", "\"", ":", "t", "r", "u", "e", "}", "}">>) @@
  (5 :> <<>>) @@
  (8 :> <<"{", "\"", "p", "r", "o", "d", "u", "c", "t", "s", "\"", ":">>) @@
  (9 :> <<"{", "\"", "f", "o", "o", "\"", ":", "1", "}">>)

\* the pieces that are one fence, in the order of the message
FencePieces == SelectSeq(parts, LAMBDA p : p.n \in DOMAIN FenceInside)

\* the json blocks shown, in order
JsonBlocksShown == SelectSeq(bubbleBlocks[1], LAMBDA b : b.kind = "json")

\* the message holds no fence marker outside the pieces that are one fence
C22_WholeFences == \A i \in 1..Len(parts) : parts[i].n \notin {7, 10}

(* C22: a message that is not as a whole one payload and holds k >= 1       *)
(* closed fences is shown as exactly k json blocks in the order of the      *)
(* fences; a text block stands before a json block exactly when the text    *)
(* between it and the fence before (or the start) is not blank, and a text  *)
(* block ends the list exactly when the text after the last fence is not    *)
(* blank.                                                                   *)
C22_FencesInOrder ==
  (Rendered /\ OfPieces /\ WholePayload = <<>> /\ C22_ClosedFences >= 1) =>
    /\ Len(JsonBlocksShown) = C22_ClosedFences
    /\ [k \in 1..Len(bubbleBlocks[1]) |-> bubbleBlocks[1][k].kind] = C22_Expected
    /\ C22_WholeFences =>
         [k \in 1..Len(JsonBlocksShown) |-> JsonBlocksShown[k].value]
           = [k \in 1..Len(FencePieces) |-> FenceInside[FencePieces[k].n]]

\* a fence, text, a fence around other text: json, text, json with the
\* values in the order written
C22_Witness ==
  /\ Rendered
  /\ Len(parts) = 3
  /\ OfPieces
  /\ parts[1].n = 4 /\ parts[2].n = 1 /\ parts[3].n = 3
  /\ [k \in 1..3 |-> bubbleBlocks[1][k].kind] = <<"json", "text", "json">>
  /\ bubbleBlocks[1][1].value = FenceInside[4]
  /\ bubbleBlocks[1][3].value = FenceInside[3]

---------------------------------------------------------------------------
(* What is checked of the turns of the chat.                                *)

\* the roles of the messages take turns, the user first
Alternating ==
  \A k \in 1..Len(messages) : messages[k].role = IF k % 2 = 1 THEN "user" ELSE "assistant"

\* a step from a state in which the chat is loading or the input is blank
\* appends no message of the user and starts no request
C23_NoSend ==
  (isLoading \/ Trim(chatInput) = <<>>) =>
    /\ Len(pending') <= Len(pending)
    /\ \/ messages' = messages
       \/ /\ Len(messages') = Len(messages) + 1
          /\ messages'[Len(messages')].role = "assistant"

(* C23: at most one request is under way at any time: while isLoading is    *)
(* true, and whenever the input is blank, sendMessage appends nothing and   *)
(* starts no request; so the messages take turns user, assistant, user, ... *)
(* from a message of the user on.                                           *)
C23_OneAtATime == [](Len(pending) <= 1 /\ Alternating) /\ [][C23_NoSend]_vars

\* the second turn is under way and the user has typed the next input while
\* the chat is loading
C23_Witness ==
  /\ isLoading
  /\ Len(pending) = 1
  /\ Len(messages) = 3
  /\ messages[3].role = "user"
  /\ Trim(chatInput) # <<>>

---------------------------------------------------------------------------
(* What is checked of one turn of the chat.                                 *)

\* sendMessage accepts the input: it is not blank and the chat is not loading
Accepted == ~isLoading /\ Trim(chatInput) # <<>>

\* sendMessage acts in this step
Sends == Len(pending') > Len(pending)

\* a request settles in this step
Settles == Len(pending') < Len(pending)

\* a send that starts a request appends the message of the user and sets
\* the loading flag
SendStep ==
  /\ Sends
  /\ messages' = Append(messages, [role |-> "user", content |-> chatInput])
  /\ isLoading'

\* an accepted send starts a request
C24_Send == (Accepted /\ Len(messages) < 2 * MaxTurns) => ENABLED (sendMessage /\ SendStep)

\* the request that settles is followed by one message of the assistant,
\* whose content is a string, and the loading flag is cleared
C24_Settle ==
  Settles =>
    /\ Len(messages') = Len(messages) + 1
    /\ SubSeq(messages', 1, Len(messages)) = messages
    /\ messages[Len(messages)].role = "user"
    /\ messages'[Len(messages')].role = "assistant"
    /\ messages'[Len(messages')].content \in Seq(STRING)
    /\ ~isLoading'

(* C24: every accepted send (input not blank, chat not loading) appends     *)
(* the message of the user and sets isLoading; once its request settles,    *)
(* exactly one message of the assistant with a string as content is         *)
(* appended and isLoading is false again: the chat is loading only while a  *)
(* request is under way.                                                    *)
C24_TurnCompletes ==
  /\ [](C24_Send /\ (isLoading <=> pending # <<>>))
  /\ [][(Sends => (Accepted /\ SendStep)) /\ C24_Settle]_vars

\* a response with a body that is an object without a reply has settled: the
\* pretty-printed body is the second message and the chat is not loading
C24_Witness ==
  /\ Len(messages) = 2
  /\ messages[1] = [role |-> "user", content |-> Typed[1]]
  /\ messages[2].role = "assistant"
  /\ messages[2].content = JsonStringify(ResJson(Responses[3].body)[1], 0)
  /\ ~isLoading
  /\ pending = <<>>

---------------------------------------------------------------------------
(* What is checked of the product catalog.                                  *)

\* call i of fetchProducts returns in this step
Returns(i) == inFlight' = InFlightWithout(i)

\* the call made for the latest selection has returned
LatestReturned == \A k \in 1..Len(inFlight) : ~inFlight[k].latest

C25_LateKept ==
  \A i \in 1..Len(inFlight) : (LatestReturned /\ Returns(i)) => items' = items

(* C25: when the calls of fetchProducts have returned, the items shown are  *)
(* those of the call made for the type and sort order selected last: a call *)
(* made for an earlier selection that returns after it does not replace     *)
(* its items.                                                               *)
C25_LatestSelectionShown == [][C25_LateKept]_vars

(* C26: loading is true whenever a call of fetchProducts is under way, and  *)
(* false only when none is: a call that returns while another is under way  *)
(* does not clear it.                                                       *)
C26_LoadingWhileInFlight == inFlight # <<>> => loading

---------------------------------------------------------------------------
(* What is checked of the field auto_transfer.                              *)

\* every alternative of the negative pattern begins with an alternative of
\* the affirmative pattern
C27_NegativeHoldsAffirmative ==
  \A n \in 1..Len(AutoTransferNo) : \E y \in 1..Len(AutoTransferYes) :
    /\ Len(AutoTransferYes[y]) <= Len(AutoTransferNo[n])
    /\ SubSeq(AutoTransferNo[n], 1, Len(AutoTransferYes[y])) = AutoTransferYes[y]

\* the utterance holds the phrase 자동이체 싫어요
C27_Refused == \E k \in 1..Len(said) : said[k] = 15

(* C27: for every utterance auto_transfer is yes or unknown and never no:   *)
(* every alternative of its negative pattern holds a keyword of its         *)
(* affirmative pattern, which is looked for first.                          *)
C27_AutoTransferNeverNo ==
  /\ C27_NegativeHoldsAffirmative
  /\ Answered =>
       /\ out[1].eligibility.auto_transfer \in {"yes", "unknown"}
       /\ C27_Refused => out[1].eligibility.auto_transfer = "yes"

\* 자동이체 싫어요 matches the negative pattern and is answered with yes
C27_Witness ==
  /\ Answered
  /\ C27_Refused
  /\ RegExpTest(AutoTransferNo, Trim(user_message))
  /\ out[1].eligibility.auto_transfer = "yes"

---------------------------------------------------------------------------
(* What is checked of durations and amounts for 적금.  Of the phrases, 6    *)
(* and 9 state a duration in 개월, 7 one in 달 and 8 one in months.         *)

\* the product type holds 적금
C28_Savings == Contains(product_type, <<"Jeog", "Geum">>)

\* the utterance states a duration with the unit 개월
C28_InGaewol == \E k \in 1..Len(said) : said[k] \in {6, 9}

\* the utterance states a duration with the unit 달 or month(s)
C28_InDalOrMonths == \E k \in 1..Len(said) : said[k] \in {7, 8}

(* C28: for a product type that holds 적금, an amount found in an utterance *)
(* whose duration is given in 개월 goes to monthly_amount and never to      *)
(* lump_sum, 개월 holding the periodicity word 월; so a response for 적금    *)
(* has both term_months and lump_sum only when the duration was written     *)
(* with 달 or month(s).                                                     *)
C28_GaewolIsMonthly ==
  (Answered /\ C28_Savings) =>
    /\ (C28_InGaewol /\ AmountPositions # {}) =>
         /\ "monthly_amount" \in DOMAIN out[1].slots
         /\ "lump_sum" \notin DOMAIN out[1].slots
    /\ {"term_months", "lump_sum"} \subseteq DOMAIN out[1].slots =>
         /\ C28_InDalOrMonths
         /\ ~C28_InGaewol

\* 12개월 and 5천만원 for 적금: twelve months and a monthly amount of fifty
\* million
C28_Witness ==
  /\ Answered
  /\ product_type = <<"Jeog", "Geum">>
  /\ said = <<6, 4>>
  /\ out[1].slots = [term_months |-> 12, monthly_amount |-> 50000000]

---------------------------------------------------------------------------
(* What is checked of messages that are one JSON value but no object or     *)
(* array.                                                                   *)

\* the payloads that are a string, a number, a boolean or null
PrimitivePayloads == {3, 4, 5, 8, 9, 10, 11}

\* the message is, as it is and unfenced, one such payload
OfPrimitive ==
  /\ parts # <<>>
  /\ parts[1].kind = "other"
  /\ ~parts[1].fenced
  /\ parts[1].n \in PrimitivePayloads

\* JSON.parse takes the trimmed message and gives a value of that type
C29_Decodes ==
  LET r == ParseValue(Trim(bubbleContent), 1)
  IN  /\ r.ok
      /\ SpaceRunEnd(Trim(bubbleContent), r.next) > Len(Trim(bubbleContent))
      /\ r.val.type \in {"string", "number", "boolean", "null"}

(* C29: only objects and arrays are taken for the payload that a whole      *)
(* message is: a message whose trimmed text is JSON of a string, a number,  *)
(* a boolean or null is not shown as a json block; when it holds no fence   *)
(* it is shown as one text block that holds the message as it was.          *)
C29_PrimitiveIsText ==
  (Rendered /\ OfPrimitive) =>
    /\ C29_Decodes
    /\ \A k \in 1..Len(bubbleBlocks[1]) :
         ~(bubbleBlocks[1][k].kind = "json" /\ bubbleBlocks[1][k].value = Trim(bubbleContent))
    /\ ~FenceExec(bubbleContent, 1).found =>
         /\ Len(bubbleBlocks[1]) = 1
         /\ bubbleBlocks[1][1].kind = "text"
         /\ bubbleBlocks[1][1].value = bubbleContent

\* false between whitespace is shown as one text block with its whitespace
C29_Witness ==
  /\ Rendered
  /\ OfPrimitive
  /\ parts[1].n = 10
  /\ bubbleBlocks[1] = <<[kind |-> "text", value |-> OtherPayloads[10],
                          text |-> <<"f", "a", "l", "s", "e">>]>>

---------------------------------------------------------------------------
(* What is checked of the places of the blocks in the message.              *)

\* the first place from position i on where the text v stands in the
\* message, 0 when there is none; the empty text stands everywhere
PlaceFrom(v, i) ==
  LET places == {h \in i..(Len(bubbleContent) + 1 - Len(v)) :
                   SubSeq(bubbleContent, h, h + Len(v) - 1) = v}
  IN  IF places = {} THEN 0 ELSE CHOOSE h \in places : \A g \in places : h <= g

\* the values of the blocks from block k on stand in the message from
\* position i on, one after the other, in the order of the blocks
RECURSIVE InOrderFrom(_, _)
InOrderFrom(k, i) ==
  \/ k > Len(bubbleBlocks[1])
  \/ /\ PlaceFrom(bubbleBlocks[1][k].value, i) # 0
     /\ InOrderFrom(k + 1, PlaceFrom(bubbleBlocks[1][k].value, i)
                             + Len(bubbleBlocks[1][k].value))

\* the characters of all blocks
RECURSIVE BlockChars(_)
BlockChars(k) ==
  IF k > Len(bubbleBlocks[1]) THEN 0 ELSE Len(bubbleBlocks[1][k].value) + BlockChars(k + 1)

(* C30: for every message, the value of each block is a run of characters   *)
(* of the message, and the runs of the blocks lie apart and in rising       *)
(* places in the order of the blocks: no character of the message is shown  *)
(* twice or out of order.                                                   *)
C30_BlocksInPlace ==
  Rendered =>
    /\ InOrderFrom(1, 1)
    /\ BlockChars(1) <= Len(bubbleContent)

\* text, a fence, text, a fence: four blocks, each in its place
C30_Witness ==
  /\ Rendered
  /\ OfPieces
  /\ Len(parts) = 3
  /\ parts[1].n = 7 /\ parts[2].n = 1 /\ parts[3].n = 3
  /\ [k \in 1..Len(bubbleBlocks[1]) |-> bubbleBlocks[1][k].kind]
       = <<"text", "json", "text", "json">>
  /\ InOrderFrom(1, 1)

====
